---- MODULE Spec2Model ----
(***************************************************************************)
(* Model of the document ingestion pipeline of dsa-learning-agent:         *)
(*   src/src/data_processing/pdf_parser.py    (PDFParser)                  *)
(*   src/src/data_processing/db_populator.py  (DatabasePopulator)          *)
(*   src/src/data_processing/text_splitter.py (SmartTextSplitter)          *)
(*                                                                         *)
(* A Python str is modelled as a sequence of characters, each character a  *)
(* one-symbol TLA+ string.  TLA+ strings are ASCII, so the Cyrillic        *)
(* letters of the lecture marker are written by Latin stand-ins:           *)
(*   "L" = capital EL, and "l","e","k","c","i","q" = the lower-case        *)
(*   letters el, ie, ka, tse, i, ya  (so <<"l","e","k","c","i","q">> is    *)
(*   the marker word of _classify_heading).                                *)
(* The other Cyrillic letters of the concept patterns of _extract_concepts *)
(* follow the same scheme, one Latin stand-in each:                        *)
(*   a b v g d e j i k l m n o p r s t u f h c x w y q   stand for         *)
(*   a be ve ghe de ie zhe i ka el em en o pe er es te u ef ha tse che     *)
(*   sha soft-sign ya, and "M" for capital EM.                             *)
(* The Latin letters of the O-notation are kept apart from them: "O" is    *)
(* Latin capital O, "lat_o" Latin small o and "lat_n" Latin small n.       *)
(***************************************************************************)
EXTENDS Integers, Sequences, FiniteSets, TLC

VARIABLES
    pc,             \* which operation of the modelled object runs next
    doc,            \* the opened document: page_count, raw_toc, pages
    toc,            \* PDFParser.toc: sequence of (level, title, page)
    structured_toc, \* the value extract_toc returned last
    sections,       \* result of extract_content_by_toc / input of populate's loop
    reads,          \* history: per section, the zero-based pages read through doc[page_num]
    scanned,        \* history: the zero-based pages _extract_toc_manually read
    cfg,            \* chunk_size / chunk_overlap of the SmartTextSplitter, and the
                    \* str hash seed of the process
    cur,            \* populate's loop index i (0-based), or the index last resolved
    hierarchy,      \* result of the last _build_hierarchy call
    documents,      \* result of the last split_section call
    all_documents,  \* populate's all_documents
    counts,         \* history: len(documents) of every section processed so far
    clear_existing, \* populate's argument
    source,         \* the PDF file: "absent", "unreadable", "present", "open", "closed"
    vector_store,   \* DatabasePopulator.vector_store: which VectorStoreManager it is
    sink,           \* the Chroma collection and the calls made on the managers
    result,         \* what populate returned: <<>> so far, then <<dict>>
    raised          \* the exception populate let through to its caller, or "none"

vars == <<pc, doc, toc, structured_toc, sections, reads, scanned, cfg, cur, hierarchy,
          documents, all_documents, counts, clear_existing, source, vector_store, sink,
          result, raised>>

\* the state that belongs to a run of populate as a whole
run_vars == <<clear_existing, source, vector_store, sink, result, raised>>

(***************************************************************************)
(* Bounds of the model.                                                    *)
(***************************************************************************)
MaxEntries == 3      \* outline entries per document
MaxLevel == 2        \* nesting levels 1..MaxLevel of those outlines
MaxPage == 2         \* page numbers an outline entry may name
MaxPageCount == 2    \* pages of a document
HierMaxSections == 3 \* sections handed to _build_hierarchy
HierMaxLevel == 3    \* nesting levels of those sections
SplitMaxEntries == 2 \* outline entries of the documents populate's loop is run on
SplitMaxLevel == 2   \* nesting levels of those outlines
SplitMaxPage == 2    \* page numbers those outlines may name
SplitMaxPageCount == 2  \* pages of those documents
MaxChunkSize == 3    \* chunk_size of the splitter; chunk_overlap is below it
ChunkMaxPages == 3   \* pages of the documents split_text is explored on
MaxTextLen == 5      \* a document of n such pages holds at most MaxTextLen + 1 - n characters
MaxHashSeed == 5     \* str hash seeds 0..MaxHashSeed of the process
MaxConceptWords == 2 \* words of the texts _extract_concepts is explored on
SmallConceptChunk == 8   \* a chunk_size that cuts those texts
LargeConceptChunk == 80  \* a chunk_size that keeps them whole
RunMaxEntries == 2   \* outline entries of the documents populate is run on
RunMaxLevel == 2     \* nesting levels of those outlines
RunMaxPage == 1      \* page numbers those outlines may name
RunPageCount == 2    \* pages of those documents
RunMaxChunkSize == 2 \* chunk_size 2..RunMaxChunkSize of those runs
ClassifyMaxEntries == 1  \* outline entries of the documents headings are classified on
ClassifyMaxLevel == 4    \* nesting levels of those outlines
ManualMaxPages == 11     \* pages of the documents scanned for outline lines
StoreMaxCalls == 1       \* direct calls of VectorStoreManager.add_documents

(***************************************************************************)
(* Strings.                                                                *)
(***************************************************************************)
Whitespace == {" ", "\n"}
Digits == {"0", "1", "2", "3", "4", "5", "6", "7", "8", "9"}

Min(a, b) == IF a <= b THEN a ELSE b

\* str.lower() on one character: "L", "M" and "O" are the capitals here.
LowerChar(c) ==
    IF c = "L" THEN "l"
    ELSE IF c = "M" THEN "m"
    ELSE IF c = "O" THEN "lat_o"
    ELSE c

Lower(s) == [k \in 1..Len(s) |-> LowerChar(s[k])]

RECURSIVE LStrip(_)
LStrip(s) ==
    IF s # <<>> /\ Head(s) \in Whitespace THEN LStrip(Tail(s)) ELSE s

RECURSIVE RStrip(_)
RStrip(s) ==
    IF s # <<>> /\ s[Len(s)] \in Whitespace
    THEN RStrip(SubSeq(s, 1, Len(s) - 1))
    ELSE s

\* str.strip()
Strip(s) == RStrip(LStrip(s))

\* `needle in s`
Contains(s, needle) ==
    \E k \in 1..(Len(s) - Len(needle) + 1) :
        SubSeq(s, k, k + Len(needle) - 1) = needle

\* sep.join(parts)
RECURSIVE Join(_, _)
Join(sep, parts) ==
    IF parts = <<>> THEN <<>>
    ELSE IF Len(parts) = 1 THEN parts[1]
    ELSE parts[1] \o sep \o Join(sep, Tail(parts))

\* range(a, b) for a >= 0
Range(a, b) == [k \in 1..(IF b > a THEN b - a ELSE 0) |-> a + k - 1]

\* end of the run of characters of `set` that starts at position k (k - 1 if none)
RECURSIVE RunEnd(_, _, _)
RunEnd(s, k, set) ==
    IF k <= Len(s) /\ s[k] \in set THEN RunEnd(s, k + 1, set) ELSE k - 1

\* last position in k..m holding "\n", or 0
RECURSIVE LastNewline(_, _, _)
LastNewline(s, k, m) ==
    IF m < k THEN 0
    ELSE IF s[m] = "\n" THEN m
    ELSE LastNewline(s, k, m - 1)

(***************************************************************************)
(* PDFParser._clean_text                                                   *)
(***************************************************************************)
\* re.sub(r"\s+", " ", text)
RECURSIVE CollapseWhitespace(_)
CollapseWhitespace(s) ==
    IF s = <<>> THEN <<>>
    ELSE IF Head(s) \in Whitespace
    THEN <<" ">> \o CollapseWhitespace(SubSeq(s, RunEnd(s, 1, Whitespace) + 1, Len(s)))
    ELSE <<Head(s)>> \o CollapseWhitespace(Tail(s))

\* re.sub(r"\n\s*\d+\s*\n", "\n", text): a match starts at a "\n", runs over
\* whitespace, a digit run, whitespace, and ends at the last "\n" of that run.
PageNumberMatchEnd(s, k) ==
    LET w == RunEnd(s, k + 1, Whitespace)
        d == RunEnd(s, w + 1, Digits)
        v == RunEnd(s, d + 1, Whitespace)
    IN  IF s[k] = "\n" /\ d > w THEN LastNewline(s, d + 1, v) ELSE 0

RECURSIVE RemovePageNumbers(_)
RemovePageNumbers(s) ==
    IF s = <<>> THEN <<>>
    ELSE LET e == PageNumberMatchEnd(s, 1)
         IN  IF e > 0
             THEN <<"\n">> \o RemovePageNumbers(SubSeq(s, e + 1, Len(s)))
             ELSE <<Head(s)>> \o RemovePageNumbers(Tail(s))

\* re.sub(r"\n\s*\n", "\n\n", text)
BlankLineMatchEnd(s, k) ==
    IF s[k] = "\n"
    THEN LastNewline(s, k + 1, RunEnd(s, k + 1, Whitespace))
    ELSE 0

RECURSIVE RestoreParagraphs(_)
RestoreParagraphs(s) ==
    IF s = <<>> THEN <<>>
    ELSE LET e == BlankLineMatchEnd(s, 1)
         IN  IF e > 0
             THEN <<"\n", "\n">> \o RestoreParagraphs(SubSeq(s, e + 1, Len(s)))
             ELSE <<Head(s)>> \o RestoreParagraphs(Tail(s))

clean_text(text) ==
    Strip(RestoreParagraphs(RemovePageNumbers(CollapseWhitespace(text))))

(***************************************************************************)
(* PDFParser._classify_heading                                             *)
(***************************************************************************)
LectureMarker == <<"l", "e", "k", "c", "i", "q">>

\* re.match(r"^\d+\.", title)
NumericPrefix(title) ==
    LET d == RunEnd(title, 1, Digits)
    IN  d >= 1 /\ d < Len(title) /\ title[d + 1] = "."

\* a slip: the level decides before the lecture marker and the numeric prefix
classify_heading_level_first(level, title) ==
    IF level = 1 THEN "lecture"
    ELSE IF level = 2 THEN "section"
    ELSE IF level >= 3 THEN "subsection"
    ELSE IF Contains(Lower(title), LectureMarker) THEN "lecture"
    ELSE IF NumericPrefix(title) THEN "section"
    ELSE "unknown"

classify_heading(level, title) ==
    IF Contains(Lower(title), LectureMarker) \/ level = 1 THEN "lecture"
    ELSE IF level = 2 \/ NumericPrefix(title) THEN "section"
    ELSE IF level >= 3 THEN "subsection"
    ELSE "unknown"

(***************************************************************************)
(* PDFParser._extract_toc_manually                                         *)
(***************************************************************************)
TocScanPages == 10

\* text.split("\n")
RECURSIVE SplitLines(_)
SplitLines(s) ==
    IF \A k \in 1..Len(s) : s[k] # "\n" THEN <<s>>
    ELSE LET n == CHOOSE k \in 1..Len(s) :
                      s[k] = "\n" /\ \A m \in 1..(k - 1) : s[m] # "\n"
         IN  <<SubSeq(s, 1, n - 1)>> \o SplitLines(SubSeq(s, n + 1, Len(s)))

\* int(s) for a digit string
RECURSIVE ParseInt(_)
ParseInt(s) ==
    IF s = <<>> THEN 0
    ELSE 10 * ParseInt(SubSeq(s, 1, Len(s) - 1))
         + (CHOOSE v \in 0..9 : ToString(v) = s[Len(s)])

\* The common tail of the three patterns, after the title group has ended at
\* position b:  \s+ \.{2,} \s* (\d+).  Every quantifier is forced to its whole
\* run, so the tail matches in at most one way.
TailEnds(s, b) ==
    LET c == RunEnd(s, b + 1, Whitespace)
        d == RunEnd(s, c + 1, {"."})
        e == RunEnd(s, d + 1, Whitespace)
        f == RunEnd(s, e + 1, Digits)
    IN  [ok |-> c >= b + 1 /\ d >= c + 2 /\ f >= e + 1, from |-> e + 1, to |-> f]

\* [\.\s]+ (.*?) <tail> starting at position p: the greedy separator run ends at
\* a (longest first), the lazy title ends at b (shortest first).
HeadingTail(s, p) ==
    LET amax == RunEnd(s, p, Whitespace \cup {"."})
        ok(a, b) == TailEnds(s, b).ok
        as == {a \in p..amax : \E b \in a..Len(s) : ok(a, b)}
    IN  IF as = {} THEN [matched |-> FALSE]
        ELSE LET a == CHOOSE x \in as : \A y \in as : y <= x
                 b == CHOOSE x \in a..Len(s) :
                          ok(a, x) /\ \A y \in a..(x - 1) : ~ok(a, y)
                 t == TailEnds(s, b)
             IN  [matched |-> TRUE,
                  title |-> SubSeq(s, a + 1, b),
                  page |-> ParseInt(SubSeq(s, t.from, t.to))]

\* r"^Lekciq\s+(\d+)[\.\s]+(.*?)\s+\.{2,}\s*(\d+)" with re.IGNORECASE
LectureMatch(line) ==
    LET w == RunEnd(line, 7, Whitespace)
        n == RunEnd(line, w + 1, Digits)
    IN  IF Len(line) >= 6 /\ Lower(SubSeq(line, 1, 6)) = LectureMarker
           /\ w >= 7 /\ n >= w + 1
        THEN LET t == HeadingTail(line, n + 1)
             IN  IF t.matched
                 THEN [matched |-> TRUE,
                       entry |-> [level |-> 1,
                                  title |-> <<"L", "e", "k", "c", "i", "q", " ">>
                                            \o SubSeq(line, w + 1, n)
                                            \o <<":", " ">> \o Strip(t.title),
                                  page |-> t.page]]
                 ELSE [matched |-> FALSE]
        ELSE [matched |-> FALSE]

\* r"^(\d+)\.(\d+)[\.\s]+(.*?)\s+\.{2,}\s*(\d+)"
SectionMatch(line) ==
    LET n == RunEnd(line, 1, Digits)
        m == RunEnd(line, n + 2, Digits)
    IN  IF n >= 1 /\ n < Len(line) /\ line[n + 1] = "." /\ m >= n + 2
        THEN LET t == HeadingTail(line, m + 1)
             IN  IF t.matched
                 THEN [matched |-> TRUE,
                       entry |-> [level |-> 2,
                                  title |-> SubSeq(line, 1, n) \o <<".">>
                                            \o SubSeq(line, n + 2, m)
                                            \o <<" ">> \o Strip(t.title),
                                  page |-> t.page]]
                 ELSE [matched |-> FALSE]
        ELSE [matched |-> FALSE]

\* r"^(\d+)\.(\d+)\.(\d+)[\.\s]+(.*?)\s+\.{2,}\s*(\d+)"
SubsectionMatch(line) ==
    LET n == RunEnd(line, 1, Digits)
        m == RunEnd(line, n + 2, Digits)
        k == RunEnd(line, m + 2, Digits)
    IN  IF n >= 1 /\ n < Len(line) /\ line[n + 1] = "." /\ m >= n + 2
           /\ m < Len(line) /\ line[m + 1] = "." /\ k >= m + 2
        THEN LET t == HeadingTail(line, k + 1)
             IN  IF t.matched
                 THEN [matched |-> TRUE,
                       entry |-> [level |-> 3,
                                  title |-> SubSeq(line, 1, n) \o <<".">>
                                            \o SubSeq(line, n + 2, m) \o <<".">>
                                            \o SubSeq(line, m + 2, k)
                                            \o <<" ">> \o Strip(t.title),
                                  page |-> t.page]]
                 ELSE [matched |-> FALSE]
        ELSE [matched |-> FALSE]

\* a slip: no `continue`, every pattern that matches appends its entry
LineEntriesAll(line) ==
    (IF LectureMatch(line).matched THEN <<LectureMatch(line).entry>> ELSE <<>>)
    \o (IF SectionMatch(line).matched THEN <<SectionMatch(line).entry>> ELSE <<>>)
    \o (IF SubsectionMatch(line).matched THEN <<SubsectionMatch(line).entry>> ELSE <<>>)

\* the body of `for line in lines`: what one line appends to toc
LineEntries(line) ==
    IF LectureMatch(line).matched THEN <<LectureMatch(line).entry>>
    ELSE IF SectionMatch(line).matched THEN <<SectionMatch(line).entry>>
    ELSE IF SubsectionMatch(line).matched THEN <<SubsectionMatch(line).entry>>
    ELSE <<>>

RECURSIVE LinesEntries(_)
LinesEntries(lines) ==
    IF lines = <<>> THEN <<>>
    ELSE LineEntries(Head(lines)) \o LinesEntries(Tail(lines))

\* the entries of pages from..toc_pages (one-based), in scan order
RECURSIVE ScanPages(_, _, _)
ScanPages(pages, from, toc_pages) ==
    IF from > toc_pages THEN <<>>
    ELSE LinesEntries(SplitLines(pages[from]))
         \o ScanPages(pages, from + 1, toc_pages)

\* a slip: every page of the document is scanned
extract_toc_manually_all_pages(d) ==
    ScanPages(d.pages, 1, d.page_count)

extract_toc_manually(d) ==
    ScanPages(d.pages, 1, Min(TocScanPages, d.page_count))

(***************************************************************************)
(* PDFParser.extract_toc                                                   *)
(***************************************************************************)
\* the zero-based pages extract_toc reads: those of the manual scan, when the
\* embedded outline is empty
pages_scanned(d) ==
    IF d.raw_toc # <<>> THEN <<>> ELSE Range(0, Min(TocScanPages, d.page_count))

\* a slip: the pages are scanned first, the embedded outline is the fallback
toc_of_manual_first(d) ==
    IF extract_toc_manually(d) # <<>> THEN extract_toc_manually(d) ELSE d.raw_toc

\* self.toc after extract_toc: the embedded outline, or the manual one
toc_of(d) ==
    IF d.raw_toc # <<>> THEN d.raw_toc ELSE extract_toc_manually(d)

structure_toc(t) ==
    [k \in 1..Len(t) |->
        [level |-> t[k].level,
         title |-> Strip(t[k].title),
         page |-> t[k].page,
         type |-> classify_heading(t[k].level, t[k].title)]]

(***************************************************************************)
(* PDFParser._extract_text_from_pages, extract_content_by_toc              *)
(***************************************************************************)
\* a slip: end_page taken as the last page index instead of one past it
pages_read_short(d, start_page, end_page) ==
    Range(start_page, Min(end_page - 1, d.page_count))

\* the page_num values of `for page_num in range(start_page, min(end_page, len(doc)))`
pages_read(d, start_page, end_page) ==
    Range(start_page, Min(end_page, d.page_count))

\* a slip: the page texts joined by one line break
extract_text_from_pages_one_newline(d, start_page, end_page) ==
    LET nums == pages_read(d, start_page, end_page)
    IN  Join(<<"\n">>, [k \in 1..Len(nums) |-> clean_text(d.pages[nums[k] + 1])])

extract_text_from_pages(d, start_page, end_page) ==
    LET nums == pages_read(d, start_page, end_page)
    IN  Join(<<"\n", "\n">>, [k \in 1..Len(nums) |-> clean_text(d.pages[nums[k] + 1])])

\* a slip: the closing entry must be strictly shallower
scan_end_page_strict(d, t, level, j) ==
    LET later == {k \in j..Len(t) : t[k].level < level}
    IN  IF later = {} THEN d.page_count
        ELSE t[CHOOSE k \in later : \A m \in later : k <= m].page - 1

\* a slip: no `break`, so the last closing entry decides
scan_end_page_last(d, t, level, j) ==
    LET later == {k \in j..Len(t) : t[k].level <= level}
    IN  IF later = {} THEN d.page_count
        ELSE t[CHOOSE k \in later : \A m \in later : m <= k].page - 1

\* a slip: only an entry of the same level closes the range
scan_end_page_same_level(d, t, level, j) ==
    LET later == {k \in j..Len(t) : t[k].level = level}
    IN  IF later = {} THEN d.page_count
        ELSE t[CHOOSE k \in later : \A m \in later : k <= m].page - 1

\* the inner loop `for j in range(i + 1, len(self.toc))`, from position j on
\* (positions are one-based here); end_page stays None when no entry breaks it
RECURSIVE scan_end_page(_, _, _, _)
scan_end_page(d, t, level, j) ==
    IF j > Len(t) THEN d.page_count
    ELSE IF t[j].level <= level THEN t[j].page - 1
    ELSE scan_end_page(d, t, level, j + 1)

end_page_of(d, t, i) == scan_end_page(d, t, t[i].level, i + 1)

section_of(d, t, i) ==
    [level |-> t[i].level,
     title |-> Strip(t[i].title),
     start_page |-> t[i].page,
     end_page |-> end_page_of(d, t, i),
     content |-> extract_text_from_pages(d, t[i].page - 1, end_page_of(d, t, i)),
     type |-> classify_heading(t[i].level, t[i].title)]

\* a slip: entries without text are skipped
extract_content_nonempty(d, t) ==
    SelectSeq([i \in 1..Len(t) |-> section_of(d, t, i)], LAMBDA sec : sec.content # <<>>)

\* the list extract_content_by_toc returns for self.toc = t
extract_content(d, t) == [i \in 1..Len(t) |-> section_of(d, t, i)]

(***************************************************************************)
(* Inputs: documents.                                                      *)
(***************************************************************************)
\* "Lekciq 1", " 1.1 a", "1.1.1", "ab "
Titles ==
    << <<"L", "e", "k", "c", "i", "q", " ", "1">>,
       <<" ", "1", ".", "1", " ", "a">>,
       <<"1", ".", "1", ".", "1">>,
       <<"a", "b", " ">> >>

\* page texts; the last one holds two outline lines, "1.1 a .. 2" and
\* "lekciq 1 b ... 1"
Texts ==
    << <<"a", " ", "\n", " ", "b">>,
       <<" ", "c", "\n">>,
       <<>>,
       <<"1", ".", "1", " ", "a", " ", ".", ".", " ", "2", "\n",
         "l", "e", "k", "c", "i", "q", " ", "1", " ", "b", " ", ".", ".", ".", " ", "1">> >>

Pick(samples, k) == samples[((k - 1) % Len(samples)) + 1]

\* rotations of the sample titles and texts the documents are built with
Shifts == {0, 2}

Levels == 1..MaxLevel
PageNumbers == 1..MaxPage

\* the outline with levels ls and pages ps; entry i is titled Pick(Titles, i + shift)
Outline(ls, ps, shift) ==
    [i \in 1..Len(ls) |->
        [level |-> ls[i], title |-> Pick(Titles, i + shift), page |-> ps[i]]]

\* the document of n pages with embedded outline o; page p (one-based) holds
\* Pick(Texts, p + shift)
Document(n, o, shift) ==
    [page_count |-> n, raw_toc |-> o, pages |-> [p \in 1..n |-> Pick(Texts, p + shift)]]

NoCfg == [chunk_size |-> 0, chunk_overlap |-> 0]

\* the manager handed to DatabasePopulator.__init__
GivenManager == 0

\* collection: the entries of the Chroma collection; calls: what was asked of
\* the managers so far; issued: how many identifiers the store has given out
EmptySink == [collection |-> <<>>, calls |-> <<>>, issued |-> 0]

\* a parser or a populator used on its own: no run of populate around it
NoRun(file) ==
    /\ clear_existing = FALSE
    /\ source = file
    /\ vector_store = GivenManager
    /\ sink = EmptySink
    /\ result = <<>>
    /\ raised = "none"

(***************************************************************************)
(* PDFParser as an object: an open document, then extract_content_by_toc,  *)
(* with or without a call of extract_toc before it.                        *)
(***************************************************************************)
InitSlice ==
    /\ pc = "parser"
    /\ \E n \in 0..MaxEntries, m \in 1..MaxPageCount, shift \in Shifts :
         \E ls \in [1..n -> Levels], ps \in [1..n -> PageNumbers] :
            doc = Document(m, Outline(ls, ps, shift), shift)
    /\ toc = <<>>
    /\ structured_toc = <<>>
    /\ sections = <<>>
    /\ reads = <<>>
    /\ scanned = <<>>
    /\ cfg = NoCfg
    /\ cur = 0
    /\ hierarchy = <<>>
    /\ documents = <<>>
    /\ all_documents = <<>>
    /\ counts = <<>>
    /\ NoRun("open")

ExtractToc ==
    /\ pc = "parser"
    /\ pc' = "toc"
    /\ toc' = toc_of(doc)
    /\ structured_toc' = structure_toc(toc')
    /\ scanned' = scanned \o pages_scanned(doc)
    /\ UNCHANGED <<doc, sections, reads, cfg, cur, hierarchy, documents,
                   all_documents, counts>>
    /\ UNCHANGED run_vars

ExtractContentByToc ==
    /\ pc \in {"parser", "toc"}
    /\ pc' = "sliced"
    /\ toc' = IF toc = <<>> THEN toc_of(doc) ELSE toc
    /\ structured_toc' = IF toc = <<>> THEN structure_toc(toc') ELSE structured_toc
    /\ scanned' = IF toc = <<>> THEN scanned \o pages_scanned(doc) ELSE scanned
    /\ sections' = extract_content(doc, toc')
    /\ reads' = [i \in 1..Len(toc') |->
                    pages_read(doc, toc'[i].page - 1, end_page_of(doc, toc', i))]
    /\ UNCHANGED <<doc, cfg, cur, hierarchy, documents, all_documents, counts>>
    /\ UNCHANGED run_vars

NextSlice == ExtractToc \/ ExtractContentByToc

SpecSlice == InitSlice /\ [][NextSlice]_vars

(***************************************************************************)
(* Claims about SectionSlicer (checked under SpecSlice).                   *)
(***************************************************************************)
Sliced == pc = "sliced"

\* the entries after i that close entry i: level not deeper than i's
Closers(i) == {j \in (i + 1)..Len(toc) : toc[j].level <= toc[i].level}

SetMin(S) == CHOOSE x \in S : \A y \in S : x <= y

\* C1: an outline of N entries is sliced into exactly N sections, the i-th
\* section carrying the i-th entry's level, title and kind, and starting at the
\* entry's page; entries without content are emitted too.
C1_OneSectionPerEntry ==
    Sliced =>
        /\ Len(sections) = Len(structured_toc)
        /\ \A i \in 1..Len(structured_toc) :
              i <= Len(sections)
              /\ sections[i].level = structured_toc[i].level
              /\ sections[i].title = structured_toc[i].title
              /\ sections[i].type = structured_toc[i].type
              /\ sections[i].start_page = structured_toc[i].page

C1_Witness ==
    /\ Sliced
    /\ Len(structured_toc) = 3
    /\ Len(sections) = 3
    /\ sections[2].content = <<>>
    /\ sections[3].content # <<>>

\* C2: end_page of entry i is the page of the first later entry that is not
\* deeper than i, minus 1; the page count of the document if there is none.
C2_EndPageFirstCloser ==
    Sliced =>
        \A i \in 1..Len(toc) :
            i <= Len(sections)
            /\ sections[i].end_page =
                  IF Closers(i) = {} THEN doc.page_count
                  ELSE toc[SetMin(Closers(i))].page - 1

C2_Witness ==
    /\ Sliced
    /\ Len(toc) = 3
    /\ Closers(1) = {3}
    /\ sections[1].end_page = toc[3].page - 1
    /\ Closers(3) = {}
    /\ sections[3].end_page = doc.page_count

\* C3 as stated: end_page of entry i is the least page[j] - 1 over all later
\* entries j not deeper than i, whatever the order of the pages.
C3_EndPageIsMinimum ==
    Sliced =>
        \A i \in 1..Len(toc) :
            sections[i].end_page =
                IF Closers(i) = {} THEN doc.page_count
                ELSE SetMin({toc[j].page - 1 : j \in Closers(i)})

PagesAscend(S) == \A j, k \in S : j < k => toc[j].page <= toc[k].page

\* C3 (amended): end_page of entry i is never below that minimum, and equals it
\* whenever the pages of the later entries not deeper than i do not decrease in
\* outline order; with no such entry it is the page count.
C3_EndPageMinimumWhenAscending ==
    Sliced =>
        \A i \in 1..Len(toc) :
            IF Closers(i) = {} THEN sections[i].end_page = doc.page_count
            ELSE /\ sections[i].end_page >= SetMin({toc[j].page - 1 : j \in Closers(i)})
                 /\ PagesAscend(Closers(i)) =>
                        sections[i].end_page = SetMin({toc[j].page - 1 : j \in Closers(i)})

C3_Witness ==
    /\ Sliced
    /\ Len(toc) = 3
    /\ Closers(1) = {2, 3}
    /\ toc[2].page < toc[3].page
    /\ sections[1].end_page = toc[2].page - 1

\* C4: an entry (page >= 1) whose end_page is below its start_page, or whose
\* start_page is past the last page, reads no page and gets the empty string;
\* every other entry gets the cleaned text of the zero-based pages
\* start_page - 1 .. min(end_page, page count) - 1, each once, ascending.  All
\* entries are emitted either way.
C4_PagesOfSection ==
    Sliced =>
        /\ Len(sections) = Len(toc)
        /\ Len(reads) = Len(toc)
        /\ \A i \in 1..Len(toc) :
              toc[i].page >= 1 =>
                LET sec == sections[i]
                    last == Min(sec.end_page, doc.page_count)
                IN  IF sec.end_page < sec.start_page \/ sec.start_page > doc.page_count
                    THEN reads[i] = <<>> /\ sec.content = <<>>
                    ELSE /\ Len(reads[i]) = last - sec.start_page + 1
                         /\ Len(reads[i]) >= 1
                         /\ \A k \in 1..Len(reads[i]) :
                               reads[i][k] = sec.start_page - 1 + (k - 1)
                         /\ sec.content =
                               Join(<<"\n", "\n">>,
                                    [k \in 1..Len(reads[i]) |->
                                        clean_text(doc.pages[reads[i][k] + 1])])

C4_Witness ==
    /\ Sliced
    /\ Len(sections) = 3
    /\ toc[1].page >= 1
    /\ sections[1].end_page < sections[1].start_page
    /\ reads[1] = <<>>
    /\ sections[1].content = <<>>
    /\ Len(reads[3]) = 2

(***************************************************************************)
(* DatabasePopulator._build_hierarchy                                      *)
(***************************************************************************)
\* a slip: current_level is not lowered after an ancestor is taken
RECURSIVE hierarchy_loop_fixed_level(_, _, _, _)
hierarchy_loop_fixed_level(secs, i, current_level, acc) ==
    IF i < 0 THEN acc
    ELSE IF secs[i + 1].level < current_level
    THEN IF secs[i + 1].level = 1
         THEN <<secs[i + 1].title>> \o acc
         ELSE hierarchy_loop_fixed_level(secs, i - 1, current_level,
                                         <<secs[i + 1].title>> \o acc)
    ELSE hierarchy_loop_fixed_level(secs, i - 1, current_level, acc)

\* a slip: hierarchy.append(...) instead of hierarchy.insert(0, ...)
RECURSIVE hierarchy_loop_append(_, _, _, _)
hierarchy_loop_append(secs, i, current_level, acc) ==
    IF i < 0 THEN acc
    ELSE IF secs[i + 1].level < current_level
    THEN IF secs[i + 1].level = 1
         THEN Append(acc, secs[i + 1].title)
         ELSE hierarchy_loop_append(secs, i - 1, secs[i + 1].level,
                                    Append(acc, secs[i + 1].title))
    ELSE hierarchy_loop_append(secs, i - 1, current_level, acc)

\* a slip: `<=` in place of `<`, a section of the same level counts as ancestor
RECURSIVE hierarchy_loop_not_deeper(_, _, _, _)
hierarchy_loop_not_deeper(secs, i, current_level, acc) ==
    IF i < 0 THEN acc
    ELSE IF secs[i + 1].level <= current_level
    THEN IF secs[i + 1].level = 1
         THEN <<secs[i + 1].title>> \o acc
         ELSE hierarchy_loop_not_deeper(secs, i - 1, secs[i + 1].level,
                                        <<secs[i + 1].title>> \o acc)
    ELSE hierarchy_loop_not_deeper(secs, i - 1, current_level, acc)

\* `for i in range(current_index - 1, -1, -1)` from index i on (i as in Python,
\* zero-based), with the loop's current_level and hierarchy
RECURSIVE hierarchy_loop(_, _, _, _)
hierarchy_loop(secs, i, current_level, acc) ==
    IF i < 0 THEN acc
    ELSE IF secs[i + 1].level < current_level
    THEN IF secs[i + 1].level = 1
         THEN <<secs[i + 1].title>> \o acc
         ELSE hierarchy_loop(secs, i - 1, secs[i + 1].level, <<secs[i + 1].title>> \o acc)
    ELSE hierarchy_loop(secs, i - 1, current_level, acc)

build_hierarchy(secs, current_index) ==
    hierarchy_loop(secs, current_index - 1, secs[current_index + 1].level, <<>>)

(***************************************************************************)
(* _build_hierarchy on its own: a sliced sections list, then one call for  *)
(* some index of it.                                                       *)
(***************************************************************************)
InitHier ==
    /\ pc = "resolver"
    /\ \E n \in 1..HierMaxSections :
         \E ls \in [1..n -> 1..HierMaxLevel] :
            LET o == Outline(ls, [i \in 1..n |-> 1], 1)
            IN  /\ doc = Document(1, o, 1)
                /\ toc = o
                /\ structured_toc = structure_toc(o)
                /\ sections = extract_content(doc, o)
    /\ reads = <<>>
    /\ scanned = <<>>
    /\ cfg = NoCfg
    /\ cur = 0
    /\ hierarchy = <<>>
    /\ documents = <<>>
    /\ all_documents = <<>>
    /\ counts = <<>>
    /\ NoRun("closed")

BuildHierarchy ==
    /\ pc = "resolver"
    /\ pc' = "resolved"
    /\ \E i \in 0..(Len(sections) - 1) :
         /\ cur' = i
         /\ hierarchy' = build_hierarchy(sections, i)
    /\ UNCHANGED <<doc, toc, structured_toc, sections, reads, scanned, cfg, documents,
                   all_documents, counts>>
    /\ UNCHANGED run_vars

NextHier == BuildHierarchy

SpecHier == InitHier /\ [][NextHier]_vars

(***************************************************************************)
(* Claims about HierarchyResolver (checked under SpecHier).                *)
(***************************************************************************)
Resolved == pc = "resolved"

\* the nearest section before position k (one-based) whose level is below lvl; 0 if none
NearestShallower(k, lvl) ==
    LET above == {j \in 1..(k - 1) : sections[j].level < lvl}
    IN  IF above = {} THEN 0 ELSE CHOOSE j \in above : \A m \in above : m <= j

\* the positions of the ancestors of position k, root first
RECURSIVE AncestorPositions(_)
AncestorPositions(k) ==
    LET p == NearestShallower(k, sections[k].level)
    IN  IF p = 0 THEN <<>> ELSE Append(AncestorPositions(p), p)

\* C5: _build_hierarchy returns, root first, the titles found by taking again
\* and again the nearest preceding section that is strictly shallower than the
\* one taken before, from sections[index] on; so levels rise strictly along the
\* chain and stay below the section's own level.
C5_AncestorChain ==
    Resolved =>
        LET anc == AncestorPositions(cur + 1)
        IN  /\ hierarchy = [k \in 1..Len(anc) |-> sections[anc[k]].title]
            /\ \A k \in 1..Len(anc) :
                  /\ anc[k] < cur + 1
                  /\ sections[anc[k]].level < sections[cur + 1].level
                  /\ k < Len(anc) => /\ anc[k] < anc[k + 1]
                                     /\ sections[anc[k]].level < sections[anc[k + 1]].level

C5_Witness ==
    /\ Resolved
    /\ Len(sections) = 3
    /\ cur = 2
    /\ sections[1].level = 2
    /\ sections[2].level = 2
    /\ sections[3].level = 3
    /\ hierarchy = <<sections[2].title>>

\* C6: a level-1 section has no ancestors, whatever precedes it; a level-3
\* section right after a level-1 and a level-2 section has exactly those two
\* titles, in that order.
C6_RootAndThreeLevels ==
    Resolved =>
        /\ sections[cur + 1].level = 1 => hierarchy = <<>>
        /\ (/\ cur >= 2
            /\ sections[cur - 1].level = 1
            /\ sections[cur].level = 2
            /\ sections[cur + 1].level = 3)
           => hierarchy = <<sections[cur - 1].title, sections[cur].title>>

C6_Witness ==
    /\ Resolved
    /\ cur = 2
    /\ sections[1].level = 1
    /\ sections[2].level = 2
    /\ sections[3].level = 3
    /\ hierarchy = <<sections[1].title, sections[2].title>>
    /\ Len(hierarchy[1]) > 0

(***************************************************************************)
(* SmartTextSplitter.__init__: the separator cascade handed to             *)
(* RecursiveCharacterTextSplitter(chunk_size, chunk_overlap, separators,   *)
(* length_function=len, is_separator_regex=False).                         *)
(***************************************************************************)
\* a slip: the cascade without its last resort, the empty separator
SeparatorsWithoutEmpty ==
    << <<"\n", "\n", "\n">>, <<"\n", "\n">>, <<"\n">>,
       <<".", " ">>, <<",", " ">>, <<" ">> >>

Separators ==
    << <<"\n", "\n", "\n">>, <<"\n", "\n">>, <<"\n">>,
       <<".", " ">>, <<",", " ">>, <<" ">>, <<>> >>

(***************************************************************************)
(* RecursiveCharacterTextSplitter.split_text of langchain_text_splitters,  *)
(* the library the splitter delegates to, with the library's defaults      *)
(* keep_separator=True and strip_whitespace=True.                          *)
(***************************************************************************)
\* first position >= k where sep starts in s; 0 if none
RECURSIVE FindFrom(_, _, _)
FindFrom(s, sep, k) ==
    IF k + Len(sep) - 1 > Len(s) THEN 0
    ELSE IF SubSeq(s, k, k + Len(sep) - 1) = sep THEN k
    ELSE FindFrom(s, sep, k + 1)

\* re.split(sep, s) for a literal, non-empty sep: the texts between the matches
RECURSIVE Between(_, _)
Between(s, sep) ==
    LET k == FindFrom(s, sep, 1)
    IN  IF k = 0 THEN <<s>>
        ELSE <<SubSeq(s, 1, k - 1)>> \o Between(SubSeq(s, k + Len(sep), Len(s)), sep)

NonEmpty(x) == x # <<>>

\* _split_text_with_regex(text, separator, keep_separator=True): every piece
\* but the first starts with the separator that cut it; empty pieces are dropped
split_text_with_regex(text, sep) ==
    IF sep = <<>>
    THEN [k \in 1..Len(text) |-> <<text[k]>>]
    ELSE LET parts == Between(text, sep)
         IN  SelectSeq([k \in 1..Len(parts) |->
                           IF k = 1 THEN parts[1] ELSE sep \o parts[k]],
                       NonEmpty)

\* TextSplitter._join_docs(docs, "") : the texts joined and stripped; None
\* (here: nothing) when that leaves the empty string
join_docs(current_doc) ==
    LET text == Strip(Join(<<>>, current_doc))
    IN  IF text = <<>> THEN <<>> ELSE <<text>>

\* the `while` loop of _merge_splits: pieces are dropped from the front of
\* current_doc until the rest fits the overlap and leaves room for a piece of
\* length len
RECURSIVE pop_front(_, _, _, _)
pop_front(current_doc, total, len, c) ==
    IF total > c.chunk_overlap \/ (total + len > c.chunk_size /\ total > 0)
    THEN pop_front(Tail(current_doc), total - Len(Head(current_doc)), len, c)
    ELSE [current_doc |-> current_doc, total |-> total]

\* TextSplitter._merge_splits(splits, separator="") from piece k on
RECURSIVE merge_loop(_, _, _, _, _, _)
merge_loop(splits, k, current_doc, total, docs, c) ==
    IF k > Len(splits) THEN docs \o join_docs(current_doc)
    ELSE LET d == splits[k]
             over == total + Len(d) > c.chunk_size /\ Len(current_doc) > 0
             kept == IF over THEN pop_front(current_doc, total, Len(d), c)
                     ELSE [current_doc |-> current_doc, total |-> total]
         IN  merge_loop(splits, k + 1, Append(kept.current_doc, d),
                        kept.total + Len(d),
                        IF over THEN docs \o join_docs(current_doc) ELSE docs, c)

merge_splits(splits, c) == merge_loop(splits, 1, <<>>, 0, <<>>, c)

\* the position in `separators` of the separator _split_text picks: the first
\* that is empty or occurs in the text; the last one if there is none
RECURSIVE pick_separator(_, _, _)
pick_separator(text, separators, i) ==
    IF i > Len(separators) THEN Len(separators)
    ELSE IF separators[i] = <<>> \/ FindFrom(text, separators[i], 1) > 0 THEN i
    ELSE pick_separator(text, separators, i + 1)

RECURSIVE recursive_split(_, _, _)
RECURSIVE split_loop(_, _, _, _, _, _)

\* the loop `for s in splits` of _split_text from piece k on
split_loop(splits, k, good_splits, final_chunks, new_separators, c) ==
    LET flushed == IF good_splits # <<>>
                   THEN final_chunks \o merge_splits(good_splits, c)
                   ELSE final_chunks
    IN  IF k > Len(splits) THEN flushed
        ELSE IF Len(splits[k]) < c.chunk_size
        THEN split_loop(splits, k + 1, Append(good_splits, splits[k]), final_chunks,
                        new_separators, c)
        ELSE IF new_separators = <<>>
        THEN split_loop(splits, k + 1, <<>>, Append(flushed, splits[k]),
                        new_separators, c)
        ELSE split_loop(splits, k + 1, <<>>,
                        flushed \o recursive_split(splits[k], new_separators, c),
                        new_separators, c)

\* RecursiveCharacterTextSplitter._split_text(text, separators)
recursive_split(text, separators, c) ==
    LET i == pick_separator(text, separators, 1)
        separator == separators[i]
        new_separators ==
            IF separator = <<>> \/ FindFrom(text, separator, 1) = 0 THEN <<>>
            ELSE SubSeq(separators, i + 1, Len(separators))
    IN  split_loop(split_text_with_regex(text, separator), 1, <<>>, <<>>,
                   new_separators, c)

split_text(text, c) == recursive_split(text, Separators, c)

(***************************************************************************)
(* SmartTextSplitter._extract_concepts                                     *)
(***************************************************************************)
\* the letters the class [a-ya] of the patterns takes from the model's alphabet
CyrillicLower ==
    {"a", "b", "v", "g", "d", "e", "j", "i", "k", "l", "m", "n", "o", "p", "r",
     "s", "t", "u", "f", "h", "c", "x", "w", "y", "q"}

\* the characters of the regex class \w
WordChars == CyrillicLower \cup {"L", "M", "O", "lat_o", "lat_n", "_"} \cup Digits

\* one word of a pattern: the stem, then [a-ya]* ("star"), [a-ya]+ ("plus")
\* or one letter of `last` ("one")
Word(stem, tail, last) == [stem |-> stem, tail |-> tail, last |-> last]

\* concept_patterns, in the order of the source; every pattern but the third
\* is \b(...)\b around words separated by one space, the third is
\* \b(O\([^\)]+\))
concept_patterns ==
    << [kind |-> "words", words |->
          <<Word(<<"a", "l", "g", "o", "r", "i", "t", "m">>, "star", {})>>],
       [kind |-> "words", words |->
          <<Word(<<"s", "l", "o", "j", "n", "o", "s", "t">>, "one", {"y", "i"})>>],
       [kind |-> "notation", words |-> <<>>],
       [kind |-> "words", words |->
          <<Word(<<"d", "e", "r", "e", "v">>, "one", {"a", "o"})>>],
       [kind |-> "words", words |->
          <<Word(<<"g", "r", "a", "f">>, "star", {})>>],
       [kind |-> "words", words |->
          <<Word(<<"m", "a", "s", "s", "i", "v">>, "star", {})>>],
       [kind |-> "words", words |->
          <<Word(<<"s", "p", "i", "s", "o", "k">>, "star", {})>>],
       [kind |-> "words", words |->
          <<Word(<<"s", "t", "e", "k">>, "star", {})>>],
       [kind |-> "words", words |->
          <<Word(<<"o", "x", "e", "r", "e", "d">>, "one", {"y", "i", "q"})>>],
       [kind |-> "words", words |->
          <<Word(<<"s", "o", "r", "t", "i", "r", "o", "v">>, "plus", {})>>],
       [kind |-> "words", words |->
          <<Word(<<"p", "o", "i", "s", "k">>, "star", {})>>],
       [kind |-> "words", words |->
          <<Word(<<"r", "e", "k", "u", "r", "s", "i">>, "one", {"q", "i"})>>],
       [kind |-> "words", words |->
          <<Word(<<"d", "i", "n", "a", "m", "i", "x", "e", "s", "k">>, "plus", {}),
            Word(<<"p", "r", "o", "g", "r", "a", "m", "m", "i", "r", "o", "v", "a", "n">>, "plus", {})>>],
       [kind |-> "words", words |->
          <<Word(<<"j", "a", "d", "n">>, "plus", {}),
            Word(<<"a", "l", "g", "o", "r", "i", "t", "m">>, "star", {})>>],
       [kind |-> "words", words |->
          <<Word(<<"h", "e", "w">>, "star", {})>>],
       [kind |-> "words", words |->
          <<Word(<<"k", "u", "x">>, "one", {"a", "i"})>>],
       [kind |-> "words", words |->
          <<Word(<<"o", "b", "h", "o", "d">>, "star", {})>>] >>

\* the number of results _extract_concepts keeps
ConceptLimit == 10

IsWordChar(s, k) == k >= 1 /\ k <= Len(s) /\ s[k] \in WordChars

\* \b between the characters k - 1 and k
WordBoundary(s, k) == IsWordChar(s, k - 1) # IsWordChar(s, k)

\* the position where one word of a pattern, started at k, ends; 0 if it does
\* not match.  The letter run is taken whole: what follows a word in a pattern
\* (a space or \b) cannot match inside a run of letters.
MatchWord(s, k, w) ==
    LET a == k + Len(w.stem)
        e == RunEnd(s, a, CyrillicLower)
    IN  IF a - 1 > Len(s) \/ SubSeq(s, k, a - 1) # w.stem THEN 0
        ELSE IF w.tail = "one" THEN (IF a <= Len(s) /\ s[a] \in w.last THEN a ELSE 0)
        ELSE IF w.tail = "plus" THEN (IF e >= a THEN e ELSE 0)
        ELSE e

RECURSIVE MatchWords(_, _, _, _)
MatchWords(s, k, words, i) ==
    LET e == MatchWord(s, k, words[i])
    IN  IF e = 0 THEN 0
        ELSE IF i = Len(words) THEN e
        ELSE IF e + 1 <= Len(s) /\ s[e + 1] = " " THEN MatchWords(s, e + 2, words, i + 1)
        ELSE 0

\* [^\)]+ from position k: the end of the run of characters other than ")"
RECURSIVE NotationBodyEnd(_, _)
NotationBodyEnd(s, k) ==
    IF k <= Len(s) /\ s[k] # ")" THEN NotationBodyEnd(s, k + 1) ELSE k - 1

\* O\([^\)]+\) at position k: the position of the closing parenthesis, or 0
MatchNotation(s, k) ==
    LET r == NotationBodyEnd(s, k + 2)
    IN  IF /\ k + 1 <= Len(s)
           /\ s[k] = "O"
           /\ s[k + 1] = "("
           /\ r >= k + 2
           /\ r + 1 <= Len(s)
        THEN r + 1
        ELSE 0

\* the end of the match of pattern p that starts at position k; 0 if none
MatchAt(s, k, p) ==
    IF ~WordBoundary(s, k) THEN 0
    ELSE IF p.kind = "notation" THEN MatchNotation(s, k)
    ELSE LET e == MatchWords(s, k, p.words, 1)
         IN  IF e > 0 /\ WordBoundary(s, e + 1) THEN e ELSE 0

\* re.findall(pattern, s) from position k on: the matches, left to right, not
\* overlapping
RECURSIVE FindAll(_, _, _)
FindAll(s, k, p) ==
    IF k > Len(s) THEN <<>>
    ELSE LET e == MatchAt(s, k, p)
         IN  IF e > 0 THEN <<SubSeq(s, k, e)>> \o FindAll(s, e + 1, p)
             ELSE FindAll(s, k + 1, p)

\* the loop over concept_patterns from pattern i on
RECURSIVE MatchesFrom(_, _)
MatchesFrom(text, i) ==
    IF i > Len(concept_patterns) THEN <<>>
    ELSE FindAll(Lower(text), 1, concept_patterns[i]) \o MatchesFrom(text, i + 1)

\* the elements of a list without their repetitions
RECURSIVE FirstOccurrences(_)
FirstOccurrences(list) ==
    IF list = <<>> THEN <<>>
    ELSE LET rest == FirstOccurrences(SubSeq(list, 1, Len(list) - 1))
             x == list[Len(list)]
         IN  IF \E k \in 1..Len(rest) : rest[k] = x THEN rest ELSE Append(rest, x)

RemoveAt(list, i) == SubSeq(list, 1, i - 1) \o SubSeq(list, i + 1, Len(list))

\* list(set(...)): the order in which a set of str is iterated is decided by
\* the hash seed of the process.  The seed is read as a number in the
\* factorial system: its digits pick the last element, the one before, ...
RECURSIVE SetOrder(_, _)
SetOrder(distinct, seed) ==
    IF distinct = <<>> THEN <<>>
    ELSE LET i == (seed % Len(distinct)) + 1
         IN  Append(SetOrder(RemoveAt(distinct, i), seed \div Len(distinct)), distinct[i])

\* a slip: the matches listed without removing the repetitions
extract_concepts_with_repeats(text, seed) ==
    LET listed == SetOrder(MatchesFrom(text, 1), seed)
    IN  SubSeq(listed, 1, Min(ConceptLimit, Len(listed)))

extract_concepts(text, seed) ==
    LET concepts == MatchesFrom(text, 1)
        listed == SetOrder(FirstOccurrences(concepts), seed)
    IN  SubSeq(listed, 1, Min(ConceptLimit, Len(listed)))

(***************************************************************************)
(* SmartTextSplitter.split_section                                         *)
(*                                                                         *)
(* A metadata value carries its Python type: str values are PyStr, int     *)
(* values PyInt.  The fixed strings ("algobook.pdf", the heading types)    *)
(* are kept as TLA+ strings.                                               *)
(***************************************************************************)
PyStr(v) == [py |-> "str", val |-> v]
PyInt(v) == [py |-> "int", val |-> v]
PyList(v) == [py |-> "list", val |-> v]

HierarchySeparator == <<" ", ">", " ">>

ConceptSeparator == <<",", " ">>

chunk_document(section_data, hierarchy_titles, chunks, i, c) ==
    [page_content |-> chunks[i],
     metadata |->
        [source |-> PyStr("algobook.pdf"),
         title |-> PyStr(section_data.title),
         level |-> PyInt(section_data.level),
         type |-> PyStr(section_data.type),
         page |-> PyInt(section_data.start_page),
         chunk_index |-> PyInt(i - 1),
         total_chunks |-> PyInt(Len(chunks)),
         hierarchy |-> PyStr(Join(HierarchySeparator, hierarchy_titles)),
         concepts |-> PyStr(Join(ConceptSeparator,
                                 extract_concepts(chunks[i], c.hash_seed)))]]

\* a slip: chunks numbered from 1
split_section_one_based(section_data, parent_hierarchy, c) ==
    IF section_data.content = <<>> THEN <<>>
    ELSE LET chunks == split_text(section_data.content, c)
             titles == parent_hierarchy \o <<section_data.title>>
         IN  [i \in 1..Len(chunks) |->
                [chunk_document(section_data, titles, chunks, i, c)
                    EXCEPT !.metadata.chunk_index = PyInt(i)]]

\* a slip: the section's own title put first
split_section_title_first(section_data, parent_hierarchy, c) ==
    IF section_data.content = <<>> THEN <<>>
    ELSE LET chunks == split_text(section_data.content, c)
             titles == <<section_data.title>> \o parent_hierarchy
         IN  [i \in 1..Len(chunks) |-> chunk_document(section_data, titles, chunks, i, c)]

\* a slip: content that fits one chunk is not handed to the splitter, the
\* empty content included
split_section_short_whole(section_data, parent_hierarchy, c) ==
    LET chunks == IF Len(section_data.content) <= c.chunk_size
                  THEN <<section_data.content>>
                  ELSE split_text(section_data.content, c)
        titles == parent_hierarchy \o <<section_data.title>>
    IN  [i \in 1..Len(chunks) |-> chunk_document(section_data, titles, chunks, i, c)]

\* a slip: the splitter built without the configured overlap
split_section_no_overlap(section_data, parent_hierarchy, c) ==
    IF section_data.content = <<>> THEN <<>>
    ELSE LET chunks == split_text(section_data.content, [c EXCEPT !.chunk_overlap = 0])
             titles == parent_hierarchy \o <<section_data.title>>
         IN  [i \in 1..Len(chunks) |-> chunk_document(section_data, titles, chunks, i, c)]

split_section(section_data, parent_hierarchy, c) ==
    IF section_data.content = <<>> THEN <<>>
    ELSE LET chunks == split_text(section_data.content, c)
             titles == parent_hierarchy \o <<section_data.title>>
         IN  [i \in 1..Len(chunks) |-> chunk_document(section_data, titles, chunks, i, c)]

(***************************************************************************)
(* DatabasePopulator.populate, lines 57-76: the loop over the sections the *)
(* parser returned, one action per iteration.                              *)
(***************************************************************************)
\* the page texts of SpecSplit and SpecChunk hold no domain term, so the
\* hash seed makes no difference there
Configs ==
    {[chunk_size |-> a, chunk_overlap |-> b, hash_seed |-> 0] :
        a \in 1..MaxChunkSize, b \in 0..(MaxChunkSize - 1)}

\* the state populate is in when the `with PDFParser(...)` block is left
Parsed(d, c) ==
    /\ pc = "split"
    /\ doc = d
    /\ toc = toc_of(d)
    /\ structured_toc = structure_toc(toc)
    /\ sections = extract_content(d, toc)
    /\ reads = [i \in 1..Len(toc) |->
                   pages_read(d, toc[i].page - 1, end_page_of(d, toc, i))]
    /\ scanned = pages_scanned(d) \o (IF toc_of(d) = <<>> THEN pages_scanned(d) ELSE <<>>)
    /\ cfg = c
    /\ cur = 0
    /\ hierarchy = <<>>
    /\ documents = <<>>
    /\ all_documents = <<>>
    /\ counts = <<>>
    /\ NoRun("closed")

InitSplit ==
    \E n \in 0..SplitMaxEntries, m \in 1..SplitMaxPageCount, shift \in Shifts :
        \E ls \in [1..n -> 1..SplitMaxLevel], ps \in [1..n -> 1..SplitMaxPage] :
            \E c \in Configs :
                /\ c.chunk_overlap < c.chunk_size
                /\ Parsed(Document(m, Outline(ls, ps, shift), shift), c)

\* a slip: the chunks of a section put in front of the batch
SplitSectionPrepends ==
    /\ pc = "split"
    /\ cur < Len(sections)
    /\ hierarchy' = build_hierarchy(sections, cur)
    /\ documents' = split_section(sections[cur + 1], hierarchy', cfg)
    /\ all_documents' = documents' \o all_documents
    /\ counts' = Append(counts, Len(documents'))
    /\ cur' = cur + 1
    /\ UNCHANGED <<pc, doc, toc, structured_toc, sections, reads, scanned, cfg>>
    /\ UNCHANGED run_vars

SplitSection ==
    /\ pc = "split"
    /\ cur < Len(sections)
    /\ hierarchy' = build_hierarchy(sections, cur)
    /\ documents' = split_section(sections[cur + 1], hierarchy', cfg)
    /\ all_documents' = all_documents \o documents'
    /\ counts' = Append(counts, Len(documents'))
    /\ cur' = cur + 1
    /\ UNCHANGED <<pc, doc, toc, structured_toc, sections, reads, scanned, cfg>>
    /\ UNCHANGED run_vars

NextSplit == SplitSection

SpecSplit == InitSplit /\ [][NextSplit]_vars

(***************************************************************************)
(* The same loop on one-section documents with every short page text, to   *)
(* explore split_text.                                                     *)
(***************************************************************************)
ChunkAlphabet == {"a", " ", ".", ","}

StringsUpTo(n) == UNION {[1..k -> ChunkAlphabet] : k \in 0..n}

InitChunk ==
    \E m \in 1..ChunkMaxPages :
        \E texts \in [1..m -> StringsUpTo(((MaxTextLen + 1) \div m) - 1)] :
            \E c \in Configs :
                /\ c.chunk_overlap < c.chunk_size
                /\ Parsed([page_count |-> m,
                           raw_toc |-> <<[level |-> 1, title |-> Pick(Titles, 1), page |-> 1]>>,
                           pages |-> texts], c)

SpecChunk == InitChunk /\ [][NextSplit]_vars

(***************************************************************************)
(* The same loop on one-section documents whose page text is made of       *)
(* domain terms, to explore _extract_concepts.                             *)
(***************************************************************************)
\* "graf", "grafa", "stek", "Massiv", "O(n)", "podgraf", "kuxa", "slojnosty"
ConceptWords ==
    << <<"g", "r", "a", "f">>,
       <<"g", "r", "a", "f", "a">>,
       <<"s", "t", "e", "k">>,
       <<"M", "a", "s", "s", "i", "v">>,
       <<"O", "(", "lat_n", ")">>,
       <<"p", "o", "d", "g", "r", "a", "f">>,
       <<"k", "u", "x", "a">>,
       <<"s", "l", "o", "j", "n", "o", "s", "t", "y">> >>

\* the example sentence: "Massiv imeet slojnosty O(n) pri poiske"
ExampleText ==
    <<"M", "a", "s", "s", "i", "v", " ", "i", "m", "e", "e", "t", " ", "s", "l", "o", "j", "n", "o", "s",
     "t", "y", " ", "O", "(", "lat_n", ")", " ", "p", "r", "i", " ", "p", "o", "i", "s", "k", "e">>

\* eleven different terms:
\* "graf grafa grafu grafe stek steka steku kuxa kuxi derevo dereva"
ManyTermsText ==
    <<"g", "r", "a", "f", " ", "g", "r", "a", "f", "a", " ", "g", "r", "a", "f", "u", " ", "g", "r", "a", "f", "e",
     " ", "s", "t", "e", "k", " ", "s", "t", "e", "k", "a", " ", "s", "t", "e", "k", "u", " ", "k", "u", "x", "a",
     " ", "k", "u", "x", "i", " ", "d", "e", "r", "e", "v", "o", " ", "d", "e", "r", "e", "v", "a">>

ConceptTexts ==
    {ExampleText, ManyTermsText} \cup
    {Join(<<" ">>, [k \in DOMAIN ws |-> ConceptWords[ws[k]]]) :
        ws \in UNION {[1..n -> 1..Len(ConceptWords)] : n \in 0..MaxConceptWords}}

ConceptConfigs ==
    {[chunk_size |-> a, chunk_overlap |-> 2, hash_seed |-> h] :
        a \in {SmallConceptChunk, LargeConceptChunk}, h \in 0..MaxHashSeed}

InitConcept ==
    \E text \in ConceptTexts, c \in ConceptConfigs :
        Parsed([page_count |-> 1,
                raw_toc |-> <<[level |-> 1, title |-> Pick(Titles, 1), page |-> 1]>>,
                pages |-> <<text>>], c)

SpecConcept == InitConcept /\ [][NextSplit]_vars

(***************************************************************************)
(* Claims about ChunkSplitter (checked under SpecSplit and SpecChunk).     *)
(***************************************************************************)
\* number of chunks the sections before position k (one-based) put in the batch
RECURSIVE Offset(_)
Offset(k) == IF k <= 1 THEN 0 ELSE Offset(k - 1) + counts[k - 1]

\* the j-th chunk of the k-th section, as it lies in the batch
BatchDoc(k, j) == all_documents[Offset(k) + j]

\* C7: the n >= 1 chunks of a section carry chunk_index 0, 1, ..., n-1 in the
\* order they are emitted, and all of them total_chunks = n; the numbering
\* starts again at 0 with every section of the batch.
C7_ChunkNumbering ==
    /\ Len(all_documents) = Offset(Len(counts) + 1)
    /\ \A k \in 1..Len(counts) :
          \A j \in 1..counts[k] :
              /\ BatchDoc(k, j).metadata.chunk_index = PyInt(j - 1)
              /\ BatchDoc(k, j).metadata.total_chunks = PyInt(counts[k])
    /\ \A j \in 1..Len(documents) :
          /\ documents[j].metadata.chunk_index = PyInt(j - 1)
          /\ documents[j].metadata.total_chunks = PyInt(Len(documents))

C7_Witness ==
    /\ Len(counts) = 2
    /\ counts[1] >= 2
    /\ counts[2] >= 2
    /\ all_documents[counts[1]].metadata.chunk_index = PyInt(counts[1] - 1)
    /\ all_documents[counts[1] + 1].metadata.chunk_index = PyInt(0)
    /\ all_documents[counts[1] + 1].metadata.total_chunks = PyInt(counts[2])
    /\ counts[1] # counts[2]

\* titles of the ancestors of the k-th section, root first, then its own title
TitlePath(k) ==
    LET anc == AncestorPositions(k)
    IN  [m \in 1..Len(anc) |-> sections[anc[m]].title] \o <<sections[k].title>>

C9_EmptyContentNoChunks ==
    /\ Len(all_documents) = Offset(Len(counts) + 1)
    /\ \A k \in 1..Len(counts) : sections[k].content = <<>> => counts[k] = 0
    /\ (cur >= 1 /\ sections[cur].content = <<>>) => documents = <<>>

C9_Witness ==
    /\ cur = 2
    /\ sections[2].content = <<>>
    /\ sections[2].level = 2
    /\ sections[2].title # <<>>
    /\ hierarchy = <<sections[1].title>>
    /\ documents = <<>>
    /\ counts = <<2, 0>>
    /\ Len(all_documents) = 2

IsWord(text) == \A k \in 1..Len(text) : text[k] \notin {" ", "\n", ".", ","}

\* C10: with chunk_size > chunk_overlap >= 0 no chunk is longer than
\* chunk_size, hence none exceeds chunk_size plus the unit of the separator
\* that cut it; the last resort of the cascade is the split between
\* characters, which cuts a word longer than chunk_size into pieces.
C10_ChunkLength ==
    /\ \A j \in 1..Len(all_documents) :
          /\ Len(all_documents[j].page_content) >= 1
          /\ Len(all_documents[j].page_content) <= cfg.chunk_size
    /\ \A k \in 1..Len(counts) :
          (IsWord(sections[k].content) /\ Len(sections[k].content) > cfg.chunk_size)
          => /\ counts[k] >= 2
             /\ \A j \in 1..counts[k] : IsWord(BatchDoc(k, j).page_content)
             /\ cfg.chunk_overlap = 0 =>
                   Join(<<>>, [j \in 1..counts[k] |-> BatchDoc(k, j).page_content])
                       = sections[k].content

C10_Witness ==
    /\ Len(counts) = 1
    /\ cfg.chunk_size = 2
    /\ cfg.chunk_overlap = 1
    /\ sections[1].content = <<"a", "a", "a", " ", "a">>
    /\ counts[1] >= 3
    /\ \E j \in 1..counts[1] : Len(BatchDoc(1, j).page_content) = cfg.chunk_size

\* the last n characters of x are the first n characters of y
SharedRun(x, y, n) ==
    /\ n <= Len(x)
    /\ n <= Len(y)
    /\ SubSeq(x, Len(x) - n + 1, Len(x)) = SubSeq(y, 1, n)

\* no separator of the cascade but the empty one occurs in the text
NoSeparator(text) ==
    \A i \in 1..(Len(Separators) - 1) : FindFrom(text, Separators[i], 1) = 0

ConceptsOf(document) ==
    IF document.metadata.concepts.val = <<>> THEN <<>>
    ELSE Between(document.metadata.concepts.val, ConceptSeparator)

\* every text that some pattern matches at some position of s
AllMatches(s) ==
    {SubSeq(s, x[1], MatchAt(s, x[1], concept_patterns[x[2]])) :
        x \in {y \in (1..Len(s)) \X (1..Len(concept_patterns)) :
                  MatchAt(s, y[1], concept_patterns[y[2]]) > 0}}

\* C12: the concepts attached to a chunk hold no entry twice, are at most 10,
\* and each of them is a match of one of the patterns in the lower-cased chunk
\* text; when at most 10 different terms match, the concepts are exactly the
\* terms that match.
C12_ConceptsDistinctBoundedMatches ==
    \A j \in 1..Len(all_documents) :
        LET cs == ConceptsOf(all_documents[j])
            matched == AllMatches(Lower(all_documents[j].page_content))
        IN  /\ all_documents[j].metadata.concepts.py = "str"
            /\ \A a, b \in 1..Len(cs) : a # b => cs[a] # cs[b]
            /\ Len(cs) <= ConceptLimit
            /\ \A a \in 1..Len(cs) : cs[a] \in matched
            /\ Cardinality(matched) <= ConceptLimit
                  => {cs[a] : a \in 1..Len(cs)} = matched

\* a chunk with eleven different terms of which ten are kept, "grafa" being
\* the one left out
C12_Witness ==
    /\ Len(all_documents) = 1
    /\ all_documents[1].page_content = ManyTermsText
    /\ Cardinality(AllMatches(Lower(ManyTermsText))) = ConceptLimit + 1
    /\ Len(ConceptsOf(all_documents[1])) = ConceptLimit
    /\ \A a \in 1..ConceptLimit :
          ConceptsOf(all_documents[1])[a] # <<"g", "r", "a", "f", "a">>

\* in the lower-cased text s: the end of an expression o(...) that starts at
\* the word boundary k; 0 if there is none
LowerNotationEnd(s, k) ==
    LET r == NotationBodyEnd(s, k + 2)
    IN  IF /\ WordBoundary(s, k)
           /\ k + 1 <= Len(s)
           /\ s[k] = "lat_o"
           /\ s[k + 1] = "("
           /\ r >= k + 2
           /\ r + 1 <= Len(s)
        THEN r + 1
        ELSE 0

\* "massiv", "slojnost", "o(n)", "poisk"
ExampleConcepts ==
    {<<"m", "a", "s", "s", "i", "v">>,
     <<"s", "l", "o", "j", "n", "o", "s", "t">>,
     <<"lat_o", "(", "lat_n", ")">>,
     <<"p", "o", "i", "s", "k">>}

\* C13: the concepts of the example sentence include "massiv", "slojnost",
\* "o(n)" and "poisk"; and a chunk that holds an expression O(...), in either
\* letter case, has the lower-cased expression among its concepts when fewer
\* than 10 other terms match.
C13_NotationAmongConcepts ==
    \A j \in 1..Len(all_documents) :
        LET cs == {ConceptsOf(all_documents[j])[a] :
                      a \in 1..Len(ConceptsOf(all_documents[j]))}
            s == Lower(all_documents[j].page_content)
        IN  /\ all_documents[j].page_content = ExampleText => ExampleConcepts \subseteq cs
            /\ \A k \in 1..Len(s) :
                  (LowerNotationEnd(s, k) > 0 /\ Cardinality(AllMatches(s)) < ConceptLimit)
                  => SubSeq(s, k, LowerNotationEnd(s, k)) \in cs

\* what the example sentence yields: "massiv", "slojnosty" and "poiske", in
\* the order the hash seed decides, and no O-notation
C13_ExampleYield ==
    \A j \in 1..Len(all_documents) :
        all_documents[j].page_content = ExampleText
        => {ConceptsOf(all_documents[j])[a] : a \in 1..Len(ConceptsOf(all_documents[j]))}
           = {<<"m", "a", "s", "s", "i", "v">>,
              <<"s", "l", "o", "j", "n", "o", "s", "t", "y">>,
              <<"p", "o", "i", "s", "k", "e">>}

(***************************************************************************)
(* filter_complex_metadata of langchain_community: the metadata entries    *)
(* whose value is a str, bool, int or float are kept, the others dropped.  *)
(***************************************************************************)
AllowedTypes == {"str", "bool", "int", "float"}

filter_complex_metadata(docs) ==
    [i \in 1..Len(docs) |->
        [page_content |-> docs[i].page_content,
         metadata |->
            [k \in {f \in DOMAIN docs[i].metadata :
                        docs[i].metadata[f].py \in AllowedTypes}
                |-> docs[i].metadata[k]]]]

(***************************************************************************)
(* VectorStoreManager                                                      *)
(***************************************************************************)
\* str(n) for n >= 0
RECURSIVE IntToStr(_)
IntToStr(n) ==
    LET digit == <<"0", "1", "2", "3", "4", "5", "6", "7", "8", "9">>[(n % 10) + 1]
    IN  IF n < 10 THEN <<digit>> ELSE Append(IntToStr(n \div 10), digit)

\* str(v); a value that is neither str nor int carries its str() form in `repr`
str_of(v) ==
    IF v.py = "str" THEN v.val
    ELSE IF v.py = "int" THEN IntToStr(v.val)
    ELSE v.repr

\* one entry of _clean_metadata
clean_value(v) ==
    IF v.py = "list"
    THEN PyStr(Join(<<",", " ">>, [k \in 1..Len(v.val) |-> str_of(v.val[k])]))
    ELSE IF v.py = "dict" THEN PyStr(str_of(v))
    ELSE IF v.py \in {"str", "int", "float", "bool", "NoneType"} THEN v
    ELSE PyStr(str_of(v))

\* a slip: entries of unsupported type are left out, as the library filter does
clean_metadata_dropping(metadata) ==
    [k \in {f \in DOMAIN metadata :
                metadata[f].py \in {"str", "int", "float", "bool", "NoneType"}}
        |-> metadata[k]]

clean_metadata(metadata) == [k \in DOMAIN metadata |-> clean_value(metadata[k])]

\* the identifiers the store gives to n new entries
new_ids(store, n) == [i \in 1..n |-> store.issued + i]

\* VectorStoreManager.add_documents on manager `on`; ok: whether the
\* underlying store accepts the write
add_documents(store, on, docs, ok) ==
    [collection |->
        IF ok
        THEN store.collection \o
             [i \in 1..Len(docs) |->
                 [id |-> new_ids(store, Len(docs))[i],
                  page_content |-> docs[i].page_content,
                  metadata |-> clean_metadata(docs[i].metadata)]]
        ELSE store.collection,
     calls |-> Append(store.calls,
                      [op |-> "add_documents", on |-> on, documents |-> docs, ok |-> ok]),
     issued |-> IF ok THEN store.issued + Len(docs) ELSE store.issued]

\* VectorStoreManager.delete_collection on manager `on`
delete_collection(store, on, ok) ==
    [collection |-> IF ok THEN <<>> ELSE store.collection,
     calls |-> Append(store.calls, [op |-> "delete_collection", on |-> on, ok |-> ok]),
     issued |-> store.issued]

\* VectorStoreManager(): manager `made` is built; ok: whether __init__ returns
new_manager(store, made, ok) ==
    [store EXCEPT !.calls = Append(@, [op |-> "VectorStoreManager", on |-> made, ok |-> ok])]

(***************************************************************************)
(* DatabasePopulator.populate as a whole run.                              *)
(***************************************************************************)
\* the manager populate builds after it deleted the collection
FreshManager == GivenManager + 1

NoDocument == [page_count |-> 0, raw_toc |-> <<>>, pages |-> <<>>]

\* an entry left in the collection by an earlier run
PriorEntry ==
    [id |-> 0, page_content |-> <<"b">>, metadata |-> [source |-> PyStr("algobook.pdf")]]

RunConfigs ==
    {[chunk_size |-> a, chunk_overlap |-> b, hash_seed |-> 0] :
        a \in 2..RunMaxChunkSize, b \in 0..1}

InitRun ==
    /\ pc = "start"
    /\ clear_existing \in BOOLEAN
    /\ source \in {"absent", "unreadable", "present"}
    /\ IF source = "present"
       THEN \E n \in 0..RunMaxEntries, shift \in Shifts :
                \E ls \in [1..n -> 1..RunMaxLevel], ps \in [1..n -> 1..RunMaxPage] :
                    doc = Document(RunPageCount, Outline(ls, ps, shift), shift)
       ELSE doc = NoDocument
    /\ toc = <<>>
    /\ structured_toc = <<>>
    /\ sections = <<>>
    /\ reads = <<>>
    /\ scanned = <<>>
    /\ cfg \in RunConfigs
    /\ cur = 0
    /\ hierarchy = <<>>
    /\ documents = <<>>
    /\ all_documents = <<>>
    /\ counts = <<>>
    /\ vector_store = GivenManager
    /\ \E prior \in {<<>>, <<PriorEntry>>} :
          sink = [collection |-> prior, calls |-> <<>>, issued |-> Len(prior)]
    /\ result = <<>>
    /\ raised = "none"

\* a slip: an exception of delete_collection ends the run
ClearExistingAborts ==
    /\ pc = "start"
    /\ clear_existing
    /\ \E deleted \in BOOLEAN, built \in BOOLEAN :
          /\ sink' = IF deleted
                     THEN new_manager(delete_collection(sink, vector_store, TRUE),
                                      FreshManager, built)
                     ELSE delete_collection(sink, vector_store, FALSE)
          /\ vector_store' = IF deleted /\ built THEN FreshManager ELSE vector_store
          /\ pc' = IF deleted THEN "cleared" ELSE "raised"
          /\ raised' = IF deleted THEN raised ELSE "delete_collection failed"
    /\ UNCHANGED <<doc, toc, structured_toc, sections, reads, scanned, cfg, cur, hierarchy,
                   documents, all_documents, counts, clear_existing, source, result>>

\* a slip: the manager built after the deletion is not kept
ClearExistingKeepsManager ==
    /\ pc = "start"
    /\ clear_existing
    /\ pc' = "cleared"
    /\ \E deleted \in BOOLEAN, built \in BOOLEAN :
          sink' = IF deleted
                  THEN new_manager(delete_collection(sink, vector_store, TRUE),
                                   FreshManager, built)
                  ELSE delete_collection(sink, vector_store, FALSE)
    /\ UNCHANGED <<doc, toc, structured_toc, sections, reads, scanned, cfg, cur, hierarchy,
                   documents, all_documents, counts, clear_existing, source,
                   vector_store, result, raised>>

\* a slip: the collection is cleared only when the file can be opened
ClearExistingIfReadable ==
    /\ pc = "start"
    /\ clear_existing
    /\ pc' = "cleared"
    /\ \E deleted \in BOOLEAN, built \in BOOLEAN :
          /\ sink' = IF source # "present" THEN sink
                     ELSE IF deleted
                     THEN new_manager(delete_collection(sink, vector_store, TRUE),
                                      FreshManager, built)
                     ELSE delete_collection(sink, vector_store, FALSE)
          /\ vector_store' = IF source = "present" /\ deleted /\ built
                             THEN FreshManager ELSE vector_store
    /\ UNCHANGED <<doc, toc, structured_toc, sections, reads, scanned, cfg, cur, hierarchy,
                   documents, all_documents, counts, clear_existing, source, result,
                   raised>>

\* lines 34-41: delete_collection and, if it returns, a new manager; an
\* exception of either call is logged and the run goes on
ClearExisting ==
    /\ pc = "start"
    /\ clear_existing
    /\ pc' = "cleared"
    /\ \E deleted \in BOOLEAN, built \in BOOLEAN :
          /\ sink' = IF deleted
                     THEN new_manager(delete_collection(sink, vector_store, TRUE),
                                      FreshManager, built)
                     ELSE delete_collection(sink, vector_store, FALSE)
          /\ vector_store' = IF deleted /\ built THEN FreshManager ELSE vector_store
    /\ UNCHANGED <<doc, toc, structured_toc, sections, reads, scanned, cfg, cur, hierarchy,
                   documents, all_documents, counts, clear_existing, source, result,
                   raised>>

\* a slip: a file that cannot be opened is reported as an "error" result
OpenParserReportsError ==
    /\ \/ pc = "start" /\ ~clear_existing
       \/ pc = "cleared"
    /\ IF source = "present"
       THEN /\ source' = "open"
            /\ pc' = "parser"
            /\ result' = result
       ELSE /\ source' = source
            /\ pc' = "done"
            /\ result' = <<[status |-> "error", error |-> "no file",
                            total_sections |-> 0, total_documents |-> 0]>>
    /\ UNCHANGED <<doc, toc, structured_toc, sections, reads, scanned, cfg, cur, hierarchy,
                   documents, all_documents, counts, clear_existing, vector_store,
                   sink, raised>>

\* line 46 and PDFParser.__init__: a file that is not there raises
\* FileNotFoundError, one that pymupdf cannot open raises pymupdf's error;
\* populate catches neither
OpenParser ==
    /\ \/ pc = "start" /\ ~clear_existing
       \/ pc = "cleared"
    /\ IF source = "present"
       THEN /\ source' = "open"
            /\ pc' = "parser"
            /\ raised' = raised
       ELSE /\ source' = source
            /\ pc' = "raised"
            /\ raised' = IF source = "absent" THEN "FileNotFoundError"
                                              ELSE "pymupdf.FileDataError"
    /\ UNCHANGED <<doc, toc, structured_toc, sections, reads, scanned, cfg, cur, hierarchy,
                   documents, all_documents, counts, clear_existing, vector_store,
                   sink, result>>

\* line 54: extract_content_by_toc after the extract_toc of line 49
Slice ==
    /\ pc = "toc"
    /\ ExtractContentByToc

\* the truth value of self.doc in `if self.doc:`: pymupdf's Document has
\* __len__ (its page count) and no __bool__
DocTruthy(d) == d.page_count # 0

\* PDFParser.close, called by __exit__: what becomes of the handle
close(d, handle) == IF DocTruthy(d) THEN "closed" ELSE handle

\* PDFParser.__exit__ at the end of the `with` block, then line 58
CloseParser ==
    /\ pc = "sliced"
    /\ pc' = "split"
    /\ source' = close(doc, source)
    /\ all_documents' = <<>>
    /\ UNCHANGED <<doc, toc, structured_toc, sections, reads, scanned, cfg, cur, hierarchy,
                   documents, counts, clear_existing, vector_store, sink, result,
                   raised>>

\* a slip: the write is not held back until the loop over the sections ends
AddDocumentsEarly ==
    /\ pc = "split"
    /\ cur >= Len(sections) - 1
    /\ pc' = IF cur = Len(sections) THEN "done" ELSE pc
    /\ LET filtered_documents == filter_complex_metadata(all_documents)
       IN  \E ok \in BOOLEAN :
               /\ sink' = add_documents(sink, vector_store, filtered_documents, ok)
               /\ result' =
                     IF ok
                     THEN <<[status |-> "success",
                             total_sections |-> Len(sections),
                             total_documents |-> Len(filtered_documents),
                             document_ids |-> new_ids(sink, Len(filtered_documents))]>>
                     ELSE <<[status |-> "error",
                             error |-> "add_documents failed",
                             total_sections |-> Len(sections),
                             total_documents |-> Len(filtered_documents)]>>
    /\ UNCHANGED <<doc, toc, structured_toc, sections, reads, scanned, cfg, cur, hierarchy,
                   documents, all_documents, counts, clear_existing, source,
                   vector_store, raised>>

\* a slip: no try around the write, the manager's exception goes to the caller
AddDocumentsRaises ==
    /\ pc = "split"
    /\ cur = Len(sections)
    /\ LET filtered_documents == filter_complex_metadata(all_documents)
       IN  \E ok \in BOOLEAN :
               /\ sink' = add_documents(sink, vector_store, filtered_documents, ok)
               /\ pc' = IF ok THEN "done" ELSE "raised"
               /\ raised' = IF ok THEN raised ELSE "add_documents failed"
               /\ result' =
                     IF ok
                     THEN <<[status |-> "success",
                             total_sections |-> Len(sections),
                             total_documents |-> Len(filtered_documents),
                             document_ids |-> new_ids(sink, Len(filtered_documents))]>>
                     ELSE result
    /\ UNCHANGED <<doc, toc, structured_toc, sections, reads, scanned, cfg, cur, hierarchy,
                   documents, all_documents, counts, clear_existing, source,
                   vector_store>>

\* lines 78-102: the batch is filtered and handed to the manager once; the
\* manager's exception becomes an "error" result
AddDocuments ==
    /\ pc = "split"
    /\ cur = Len(sections)
    /\ pc' = "done"
    /\ LET filtered_documents == filter_complex_metadata(all_documents)
       IN  \E ok \in BOOLEAN :
               /\ sink' = add_documents(sink, vector_store, filtered_documents, ok)
               /\ result' =
                     IF ok
                     THEN <<[status |-> "success",
                             total_sections |-> Len(sections),
                             total_documents |-> Len(filtered_documents),
                             document_ids |-> new_ids(sink, Len(filtered_documents))]>>
                     ELSE <<[status |-> "error",
                             error |-> "add_documents failed",
                             total_sections |-> Len(sections),
                             total_documents |-> Len(filtered_documents)]>>
    /\ UNCHANGED <<doc, toc, structured_toc, sections, reads, scanned, cfg, cur, hierarchy,
                   documents, all_documents, counts, clear_existing, source,
                   vector_store, raised>>

Next ==
    \/ ClearExisting
    \/ OpenParser
    \/ ExtractToc
    \/ Slice
    \/ CloseParser
    \/ SplitSection
    \/ AddDocuments

Spec == InitRun /\ [][Next]_vars

(***************************************************************************)
(* Claims about the Orchestrator (checked under Spec).                     *)
(***************************************************************************)
CallsOf(op) == SelectSeq(sink.calls, LAMBDA c : c.op = op)

\* delete_collection was called and raised
ClearFailed ==
    /\ CallsOf("delete_collection") # <<>>
    /\ ~CallsOf("delete_collection")[1].ok

\* delete_collection and the construction of the new manager both returned
ClearSucceeded ==
    /\ CallsOf("delete_collection") # <<>>
    /\ CallsOf("delete_collection")[1].ok
    /\ CallsOf("VectorStoreManager") # <<>>
    /\ CallsOf("VectorStoreManager")[1].ok

SourceCanOpen == source \in {"present", "open", "closed"}

\* C14: when clear_existing is true and delete_collection raises, the run is
\* not aborted: no exception reaches the caller, the run ends only after the
\* outline was extracted, every entry sliced, every section split and the
\* batch written once, and its status is "success" whenever that write
\* returned.
C14_ClearFailureDoesNotAbort ==
    (clear_existing /\ ClearFailed /\ SourceCanOpen)
    => /\ raised = "none"
       /\ pc # "raised"
       /\ pc = "done"
          => /\ toc = toc_of(doc)
             /\ Len(sections) = Len(toc)
             /\ cur = Len(sections)
             /\ Len(counts) = Len(sections)
             /\ Len(CallsOf("add_documents")) = 1
             /\ CallsOf("add_documents")[1].ok => result[1].status = "success"

C14_Witness ==
    /\ clear_existing
    /\ ClearFailed
    /\ pc = "done"
    /\ Len(sections) = 2
    /\ Len(all_documents) >= 2
    /\ CallsOf("add_documents")[1].ok
    /\ result[1].status = "success"

LastEntries(n) ==
    SubSeq(sink.collection, Len(sink.collection) - n + 1, Len(sink.collection))

\* C16: a run that reaches the write returns a result and raises nothing.  If
\* add_documents raised, the result is status "error" with an error message,
\* no document identifiers, and the numbers of sections and of chunks of the
\* batch; if it returned, the result is status "success" with the same two
\* numbers and the identifiers the store gave to the chunks.
C16_ResultOfWrite ==
    /\ (pc = "done") = (CallsOf("add_documents") # <<>>)
    /\ (pc = "done") = (result # <<>>)
    /\ pc = "done"
       => /\ raised = "none"
          /\ Len(result) = 1
          /\ Len(CallsOf("add_documents")) = 1
          /\ result[1].status \in {"success", "error"}
          /\ result[1].total_sections = Len(sections)
          /\ result[1].total_documents = Len(all_documents)
          /\ result[1].total_documents = Len(CallsOf("add_documents")[1].documents)
          /\ IF CallsOf("add_documents")[1].ok
             THEN /\ DOMAIN result[1] =
                        {"status", "total_sections", "total_documents", "document_ids"}
                  /\ result[1].status = "success"
                  /\ result[1].document_ids =
                        [i \in 1..Len(all_documents) |->
                            LastEntries(Len(all_documents))[i].id]
             ELSE /\ DOMAIN result[1] =
                        {"status", "error", "total_sections", "total_documents"}
                  /\ result[1].status = "error"
                  /\ result[1].error # ""

C16_Witness ==
    /\ pc = "done"
    /\ ~CallsOf("add_documents")[1].ok
    /\ result[1].status = "error"
    /\ result[1].total_sections = 2
    /\ result[1].total_documents >= 3
    /\ raised = "none"

\* C17: the batch handed to add_documents holds the chunks of all sections in
\* outline order and, within a section, in the order of their chunk_index:
\* the j-th chunk of the k-th section lies at place j after the chunks of the
\* sections 1..k-1; nothing is dropped, repeated or moved between the
\* splitting and the write.
C17_BatchOrder ==
    \A c \in 1..Len(CallsOf("add_documents")) :
        LET batch == CallsOf("add_documents")[c].documents
        IN  /\ Len(counts) = Len(sections)
            /\ Len(batch) = Offset(Len(sections) + 1)
            /\ \A k \in 1..Len(sections) :
                  LET chunks == split_section(sections[k],
                                              build_hierarchy(sections, k - 1), cfg)
                  IN  /\ counts[k] = Len(chunks)
                      /\ \A j \in 1..counts[k] :
                            /\ batch[Offset(k) + j] = chunks[j]
                            /\ batch[Offset(k) + j].metadata.chunk_index = PyInt(j - 1)
                            /\ batch[Offset(k) + j].metadata.title =
                                  PyStr(sections[k].title)

C17_Witness ==
    /\ pc = "done"
    /\ Len(sections) = 2
    /\ counts[1] >= 2
    /\ counts[2] >= 2
    /\ sections[1].title # sections[2].title
    /\ Len(CallsOf("add_documents")[1].documents) = counts[1] + counts[2]
    /\ CallsOf("add_documents")[1].documents[counts[1] + 1].metadata.chunk_index = PyInt(0)

\* C18: when the file cannot be opened the run ends with an exception to the
\* caller and no result, and nothing was extracted, sliced, split or written
\* to the store before it.
C18_SourceUnavailable ==
    /\ ~SourceCanOpen
       => /\ pc \in {"start", "cleared", "raised"}
          /\ toc = <<>>
          /\ structured_toc = <<>>
          /\ sections = <<>>
          /\ reads = <<>>
          /\ scanned = <<>>
          /\ all_documents = <<>>
          /\ CallsOf("add_documents") = <<>>
          /\ result = <<>>
          /\ pc = "raised" => raised \in {"FileNotFoundError", "pymupdf.FileDataError"}
    /\ (pc = "raised") = (raised # "none")
    /\ pc = "raised" => ~SourceCanOpen

C18_Witness ==
    /\ pc = "raised"
    /\ source = "absent"
    /\ raised = "FileNotFoundError"
    /\ clear_existing
    /\ result = <<>>
    /\ sink.collection = <<PriorEntry>>

(***************************************************************************)
(* Claims about OutlineExtractor.                                          *)
(***************************************************************************)
TocExtracted == pc \in {"toc", "sliced"}

\* C19: a non-empty embedded outline is what extract_toc uses: entry for
\* entry, in the same order, nothing added, dropped or sorted, each turned
\* into one structured entry; the pages are scanned for outline lines exactly
\* when the embedded outline is empty, and an empty embedded outline is no
\* error: extract_toc returns.
C19_EmbeddedOutlineFirst ==
    TocExtracted
    => /\ doc.raw_toc # <<>> => toc = doc.raw_toc
       /\ doc.raw_toc = <<>> => toc = extract_toc_manually(doc)
       /\ Len(structured_toc) = Len(toc)
       /\ \A k \in 1..Len(toc) :
             /\ structured_toc[k].level = toc[k].level
             /\ structured_toc[k].title = Strip(toc[k].title)
             /\ structured_toc[k].page = toc[k].page
       /\ raised = "none"

\* an embedded outline of three entries in a document whose pages hold
\* outline lines of their own
C19_Witness ==
    /\ pc = "toc"
    /\ Len(doc.raw_toc) = 3
    /\ extract_toc_manually(doc) # <<>>
    /\ toc = doc.raw_toc
    /\ toc # extract_toc_manually(doc)
    /\ toc[1].page > toc[2].page
    /\ Len(structured_toc) = 3

(***************************************************************************)
(* extract_toc on outlines of every level and kind of title, to explore    *)
(* _classify_heading.                                                      *)
(***************************************************************************)
\* "Lekciq 1", " 1.1 a", "1.1.1", "ab ", "1. a", "12.", "1a.", "", ".1", "a 1.",
\* "1", "a lekciq", "1.Lekciq"
ClassifyTitles ==
    << <<"L", "e", "k", "c", "i", "q", " ", "1">>,
       <<" ", "1", ".", "1", " ", "a">>,
       <<"1", ".", "1", ".", "1">>,
       <<"a", "b", " ">>,
       <<"1", ".", " ", "a">>,
       <<"1", "2", ".">>,
       <<"1", "a", ".">>,
       <<>>,
       <<".", "1">>,
       <<"a", " ", "1", ".">>,
       <<"1">>,
       <<"a", " ", "l", "e", "k", "c", "i", "q">>,
       <<"1", ".", "L", "e", "k", "c", "i", "q">> >>

InitClassify ==
    /\ pc = "parser"
    /\ \E n \in 1..ClassifyMaxEntries :
         \E ls \in [1..n -> 1..ClassifyMaxLevel], ts \in [1..n -> 1..Len(ClassifyTitles)] :
            doc = [page_count |-> 1,
                   raw_toc |-> [i \in 1..n |->
                                   [level |-> ls[i], title |-> ClassifyTitles[ts[i]],
                                    page |-> 1]],
                   pages |-> <<Pick(Texts, 1)>>]
    /\ toc = <<>>
    /\ structured_toc = <<>>
    /\ sections = <<>>
    /\ reads = <<>>
    /\ scanned = <<>>
    /\ cfg = NoCfg
    /\ cur = 0
    /\ hierarchy = <<>>
    /\ documents = <<>>
    /\ all_documents = <<>>
    /\ counts = <<>>
    /\ NoRun("open")

SpecClassify == InitClassify /\ [][NextSlice]_vars

\* the title holds the lecture marker, in any letter case
HasLectureMarker(title) ==
    \E k \in 1..(Len(title) - Len(LectureMarker) + 1) :
        \A m \in 1..Len(LectureMarker) : LowerChar(title[k + m - 1]) = LectureMarker[m]

\* the title starts with one or more digits and then a dot
HasNumericPrefix(title) ==
    \E d \in 1..(Len(title) - 1) :
        /\ \A m \in 1..d : title[m] \in Digits
        /\ title[d + 1] = "."

\* C20: the kind of an outline entry with a given level and title (the title
\* as the outline gives it) is lecture if the level is 1 or the title holds the
\* lecture marker in any letter case; otherwise section if the level is 2 or
\* the title starts with digits and a dot; otherwise subsection if the level
\* is 3 or more; otherwise unknown.
C20_KindByPriority ==
    TocExtracted
    => \A k \in 1..Len(toc) :
           structured_toc[k].type =
              IF toc[k].level = 1 \/ HasLectureMarker(toc[k].title) THEN "lecture"
              ELSE IF toc[k].level = 2 \/ HasNumericPrefix(toc[k].title) THEN "section"
              ELSE IF toc[k].level >= 3 THEN "subsection"
              ELSE "unknown"

\* a level-3 entry that starts with "1." and holds the lecture marker is a
\* lecture
C20_Witness ==
    /\ pc = "toc"
    /\ Len(toc) = 1
    /\ toc[1].level = 3
    /\ toc[1].title = <<"1", ".", "L", "e", "k", "c", "i", "q">>
    /\ structured_toc[1].type = "lecture"

(***************************************************************************)
(* extract_toc on documents without embedded outline, to explore           *)
(* _extract_toc_manually: up to ManualMaxPages pages, two of which hold    *)
(* the texts below, the others a text without outline lines.               *)
(***************************************************************************)
\* "1.2.3 a .. 2";  "1.1 a .. 2" and "lekciq 1 b ... 1";  "ab";
\* "Lekciq 2 c .. 1", "ab" and "2.1 b ... 3";  ""
ManualTexts ==
    << <<"1", ".", "2", ".", "3", " ", "a", " ", ".", ".", " ", "2">>,
       Pick(Texts, 4),
       <<"a", "b">>,
       <<"L", "e", "k", "c", "i", "q", " ", "2", " ", "c", " ", ".", ".", " ", "1", "\n",
         "a", "b", "\n",
         "2", ".", "1", " ", "b", " ", ".", ".", ".", " ", "3">>,
       <<>> >>

InitManual ==
    /\ pc = "parser"
    /\ \E m \in 1..ManualMaxPages :
         \E i \in 1..m, j \in 1..m, t1 \in 1..Len(ManualTexts), t2 \in 1..Len(ManualTexts) :
            /\ i <= j
            /\ doc = [page_count |-> m,
                      raw_toc |-> <<>>,
                      pages |-> [p \in 1..m |->
                                    IF p = i THEN ManualTexts[t1]
                                    ELSE IF p = j THEN ManualTexts[t2]
                                    ELSE Pick(Texts, 1)]]
    /\ toc = <<>>
    /\ structured_toc = <<>>
    /\ sections = <<>>
    /\ reads = <<>>
    /\ scanned = <<>>
    /\ cfg = NoCfg
    /\ cur = 0
    /\ hierarchy = <<>>
    /\ documents = <<>>
    /\ all_documents = <<>>
    /\ counts = <<>>
    /\ NoRun("open")

SpecManual == InitManual /\ [][NextSlice]_vars

(***************************************************************************)
(* Claims about manual extraction (checked under SpecManual).              *)
(***************************************************************************)
ManualDone == TocExtracted /\ doc.raw_toc = <<>>

\* the lines of the pages from..to (one-based), in reading order
RECURSIVE LinesOfPages(_, _, _)
LinesOfPages(pages, from, to) ==
    IF from > to THEN <<>>
    ELSE SplitLines(pages[from]) \o LinesOfPages(pages, from + 1, to)

\* the lines of the pages the scan may read: the first ten, or all if fewer
ScannedLines == LinesOfPages(doc.pages, 1, Min(TocScanPages, doc.page_count))

\* how many of the three patterns match the line
MatchCount(line) ==
    (IF LectureMatch(line).matched THEN 1 ELSE 0)
    + (IF SectionMatch(line).matched THEN 1 ELSE 0)
    + (IF SubsectionMatch(line).matched THEN 1 ELSE 0)

\* the entry of a line by its form: three-level, two-level, lecture
EntryByForm(line) ==
    IF SubsectionMatch(line).matched THEN <<SubsectionMatch(line).entry>>
    ELSE IF SectionMatch(line).matched THEN <<SectionMatch(line).entry>>
    ELSE IF LectureMatch(line).matched THEN <<LectureMatch(line).entry>>
    ELSE <<>>

RECURSIVE EntriesByForm(_)
EntriesByForm(lines) ==
    IF lines = <<>> THEN <<>>
    ELSE EntryByForm(Head(lines)) \o EntriesByForm(Tail(lines))

\* C21: a line of the three-level form yields one entry at level 3 titled
\* "n.m.k title", a line of the two-level form one entry at level 2 titled
\* "n.m title", a lecture line one entry at level 1 titled "Lekciq n: title",
\* and no line matches more than one of the three patterns.
C21_EntryByLineForm ==
    ManualDone
    => /\ toc = EntriesByForm(ScannedLines)
       /\ \A k \in 1..Len(ScannedLines) : MatchCount(ScannedLines[k]) <= 1

\* what a three-level line yields: it matches the two-level pattern as well,
\* which is tried first, so the entry is at level 2 and the third number is
\* part of the title text
C21_ThreeLevelLineYield ==
    (ManualDone /\ doc.page_count = 1 /\ doc.pages[1] = ManualTexts[1])
    => /\ MatchCount(ManualTexts[1]) = 2
       /\ toc = <<[level |-> 2,
                   title |-> <<"1", ".", "2", " ", "3", " ", "a">>,
                   page |-> 2]>>

\* the entry of a line by the first pattern that matches: lecture, two-level,
\* three-level
EntryByFirstMatch(line) ==
    IF LectureMatch(line).matched THEN <<LectureMatch(line).entry>>
    ELSE IF SectionMatch(line).matched THEN <<SectionMatch(line).entry>>
    ELSE IF SubsectionMatch(line).matched THEN <<SubsectionMatch(line).entry>>
    ELSE <<>>

RECURSIVE EntriesByFirstMatch(_)
EntriesByFirstMatch(lines) ==
    IF lines = <<>> THEN <<>>
    ELSE EntryByFirstMatch(Head(lines)) \o EntriesByFirstMatch(Tail(lines))

\* C25: every scanned line is tried against the lecture, the two-level and the
\* three-level pattern in this order and the first that matches gives the
\* line's entry; a line appends at most one entry, a line that matches none
\* appends nothing, and there are never more entries than scanned lines.
C25_FirstMatchPerLine ==
    ManualDone
    => LET lines == ScannedLines
       IN  /\ toc = EntriesByFirstMatch(lines)
           /\ Len(toc) <= Len(lines)
           /\ \A k \in 1..Len(lines) :
                 /\ Len(EntryByFirstMatch(lines[k])) <= 1
                 /\ MatchCount(lines[k]) = 0 => EntryByFirstMatch(lines[k]) = <<>>
           /\ raised = "none"

\* a page of three lines whose middle line matches nothing, and a page whose
\* line matches two patterns and yields one entry
C25_Witness ==
    /\ pc = "toc"
    /\ doc.page_count = 2
    /\ doc.pages[1] = ManualTexts[4]
    /\ doc.pages[2] = ManualTexts[1]
    /\ Len(ScannedLines) = 4
    /\ MatchCount(ScannedLines[2]) = 0
    /\ MatchCount(ScannedLines[4]) = 2
    /\ Len(toc) = 3
    /\ toc[1].level = 1
    /\ toc[2].level = 2
    /\ toc[3].level = 2

\* C26: the manual scan reads the first min(10, page count) pages and no
\* other, so no line of page 11 or later gives an entry; the entries stand in
\* the order of the scan, page after page and line after line, unsorted.
C26_ScanFirstTenPages ==
    ManualDone
    => /\ \A k \in 1..Len(scanned) :
             scanned[k] < TocScanPages /\ scanned[k] < doc.page_count
       /\ {scanned[k] : k \in 1..Len(scanned)} =
             0..(Min(TocScanPages, doc.page_count) - 1)
       /\ \A k \in 1..(Len(scanned) - 1) :
             scanned[k + 1] = scanned[k] + 1 \/ scanned[k + 1] = 0
       /\ toc = LinesEntries(ScannedLines)

\* eleven pages, outline lines on pages 10 and 11, out of page order: only
\* those of page 10 are entries, in the order of their lines
C26_Witness ==
    /\ pc = "toc"
    /\ doc.page_count = TocScanPages + 1
    /\ doc.pages[TocScanPages] = ManualTexts[2]
    /\ doc.pages[TocScanPages + 1] = ManualTexts[1]
    /\ Len(scanned) = TocScanPages
    /\ Len(toc) = 2
    /\ toc[1].page = 2
    /\ toc[2].page = 1

(***************************************************************************)
(* Claim about the run on a document with one lecture (checked under       *)
(* SpecChunk).                                                             *)
(***************************************************************************)
\* the outline is a single level-1 entry on page 1, and its section is split
SingleLectureSplit ==
    /\ Len(doc.raw_toc) = 1
    /\ doc.raw_toc[1].level = 1
    /\ doc.raw_toc[1].page = 1
    /\ cur = 1

\* one Section from page 1 to the last page whose content is the cleaned
\* page texts joined by a blank line
SingleLectureSection ==
    /\ Len(sections) = 1
    /\ sections[1].start_page = 1
    /\ sections[1].end_page = doc.page_count
    /\ sections[1].title = Strip(doc.raw_toc[1].title)
    /\ sections[1].content =
          Join(<<"\n", "\n">>, [p \in 1..doc.page_count |-> clean_text(doc.pages[p])])

MetaValues ==
    << PyStr(<<"a">>),
       PyInt(12),
       [py |-> "float", repr |-> <<"1", ".", "5">>],
       [py |-> "bool", repr |-> <<"T", "r", "u", "e">>],
       [py |-> "NoneType", repr |-> <<"N", "o", "n", "e">>],
       PyList(<<PyStr(<<"a">>), PyInt(12), [py |-> "NoneType", repr |-> <<"N", "o", "n", "e">>]>>),
       PyList(<<>>),
       [py |-> "dict", repr |-> <<"{", "'", "a", "'", ":", " ", "1", "}">>],
       [py |-> "tuple", repr |-> <<"(", "1", ",", " ", "2", ")">>] >>

\* the metadata with MetaValues[a] under "title" and MetaValues[b] under
\* "tags"; 0 stands for a key that is absent
MetaOf(a, b) ==
    [k \in (IF a > 0 THEN {"title"} ELSE {}) \cup (IF b > 0 THEN {"tags"} ELSE {})
        |-> IF k = "title" THEN MetaValues[a] ELSE MetaValues[b]]

InitStore ==
    /\ pc = "store"
    /\ doc = NoDocument
    /\ toc = <<>>
    /\ structured_toc = <<>>
    /\ sections = <<>>
    /\ reads = <<>>
    /\ scanned = <<>>
    /\ cfg = NoCfg
    /\ cur = 0
    /\ hierarchy = <<>>
    /\ documents = <<>>
    /\ all_documents = <<>>
    /\ counts = <<>>
    /\ NoRun("closed")

\* add_documents(documents), lines 29-39
StoreAddDocuments ==
    /\ pc = "store"
    /\ Len(sink.calls) < StoreMaxCalls
    /\ \E a \in 0..Len(MetaValues), b \in 0..Len(MetaValues), ok \in BOOLEAN :
          sink' = add_documents(sink, vector_store,
                                <<[page_content |-> <<"a">>, metadata |-> MetaOf(a, b)],
                                  [page_content |-> <<"b">>, metadata |-> MetaOf(b, a)]>>,
                                ok)
    /\ UNCHANGED <<pc, doc, toc, structured_toc, sections, reads, scanned, cfg, cur,
                   hierarchy, documents, all_documents, counts, clear_existing, source,
                   vector_store, result, raised>>

SpecStore == InitStore /\ [][StoreAddDocuments]_vars

(***************************************************************************)
(* Claim about the metadata that reach the store (checked under SpecStore).*)
(***************************************************************************)
Primitives == {"str", "int", "float", "bool", "NoneType"}

\* the documents of the accepted add_documents calls, in the order sent
RECURSIVE SentDocuments(_)
SentDocuments(calls) ==
    IF calls = <<>> THEN <<>>
    ELSE (IF Head(calls).op = "add_documents" /\ Head(calls).ok
          THEN Head(calls).documents ELSE <<>>)
         \o SentDocuments(Tail(calls))

\* str() of a list element or of a value that is not a list
TextOf(v) ==
    IF v.py = "str" THEN v.val
    ELSE IF v.py = "int" THEN IntToStr(v.val)
    ELSE v.repr

\* the stored value is the sent one made primitive
MadePrimitive(sent, stored) ==
    /\ stored.py \in Primitives
    /\ sent.py = "list"
       => stored = PyStr(Join(<<",", " ">>, [e \in 1..Len(sent.val) |-> TextOf(sent.val[e])]))
    /\ sent.py \in Primitives => (stored.py = sent.py /\ stored = sent)
    /\ sent.py \notin Primitives \cup {"list"} => stored = PyStr(sent.repr)

\* C23: every metadata value of every chunk that reaches the store is a
\* primitive: a list has become its elements joined with ", ", a mapping and
\* any other unsupported value its string form; primitive values and the set
\* of keys are as they were sent.
C23_MetadataPrimitive ==
    LET sent == SentDocuments(sink.calls)
    IN  /\ Len(sink.collection) = Len(sent)
        /\ \A i \in 1..Len(sent) :
              /\ sink.collection[i].page_content = sent[i].page_content
              /\ DOMAIN sink.collection[i].metadata = DOMAIN sent[i].metadata
              /\ \A k \in DOMAIN sent[i].metadata :
                    k \in DOMAIN sink.collection[i].metadata
                    /\ MadePrimitive(sent[i].metadata[k], sink.collection[i].metadata[k])

\* a chunk sent with a list under "title" and a mapping under "tags"
C23_Witness ==
    /\ Len(sink.collection) = 2
    /\ sink.calls[1].documents[1].metadata = MetaOf(6, 8)
    /\ sink.collection[1].metadata.title = PyStr(<<"a", ",", " ", "1", "2", ",", " ", "N", "o", "n", "e">>)
    /\ sink.collection[1].metadata.tags = PyStr(MetaValues[8].repr)
    /\ sink.collection[2].metadata.title = PyStr(MetaValues[8].repr)

(***************************************************************************)
(* Claims about the order of a run (checked under Spec).                   *)
(***************************************************************************)
\* the steps a run can take from one place of populate to the next
PhaseSteps ==
    {<<"start", "cleared">>, <<"start", "parser">>, <<"start", "raised">>,
     <<"cleared", "parser">>, <<"cleared", "raised">>, <<"parser", "toc">>,
     <<"toc", "sliced">>, <<"sliced", "split">>, <<"split", "done">>}

AddCallsIn(calls) == SelectSeq(calls, LAMBDA c : c.op = "add_documents")

PhaseStep ==
    /\ pc' # pc => <<pc, pc'>> \in PhaseSteps
    \* the outline is extracted before slicing, and slicing yields all sections
    /\ toc' # toc => (pc = "parser" /\ sections = <<>>)
    /\ sections' # sections
       => (pc = "toc" /\ pc' = "sliced" /\ Len(sections') = Len(toc) /\ toc' = toc)
    \* a section is split after all are sliced, in outline order, its
    \* ancestors taken from the whole list
    /\ cur' # cur
       => /\ pc = "split" /\ pc' = "split"
          /\ cur' = cur + 1
          /\ sections' = sections /\ Len(sections) = Len(toc)
          /\ hierarchy' \o <<sections[cur'].title>> = TitlePath(cur')
          /\ Len(counts') = cur'
          /\ Len(all_documents') = Len(all_documents) + Len(documents')
          /\ AddCallsIn(sink'.calls) = <<>>
    \* one write, after the last section
    /\ AddCallsIn(sink'.calls) # AddCallsIn(sink.calls)
       => /\ pc = "split" /\ pc' = "done"
          /\ cur = Len(sections) /\ cur' = cur
          /\ Len(AddCallsIn(sink'.calls)) = 1
          /\ AddCallsIn(sink'.calls)[1].documents = all_documents
    /\ pc' = "done" => Len(AddCallsIn(sink'.calls)) = 1

\* C24: in every run the outline is extracted before slicing starts, all
\* sections are sliced before the first ancestor chain is computed or the
\* first section split, every section's ancestors are taken from the complete
\* list right before it is split, sections are handled in outline order, and
\* add_documents is called exactly once, after the last section was split.
C24_PhaseOrder == [][PhaseStep]_vars

\* a run that split two sections and then wrote once
C24_Witness ==
    /\ pc = "done"
    /\ Len(sections) = 2
    /\ cur = 2
    /\ hierarchy = <<sections[1].title>>
    /\ counts[1] >= 1
    /\ counts[2] >= 1
    /\ Len(CallsOf("add_documents")) = 1
    /\ source = "closed"

(***************************************************************************)
(* Claim about ancestors and outline spans (checked under SpecHier).       *)
(***************************************************************************)
\* the position of the entry that ends the page range of entry a in
\* extract_content_by_toc: the first later one that is not deeper; 0 if none
ClosingEntry(a) ==
    LET later == {j \in (a + 1)..Len(toc) : toc[j].level <= toc[a].level}
    IN  IF later = {} THEN 0 ELSE CHOOSE j \in later : \A m \in later : j <= m

\* section a is titled t and every entry after it up to position k is deeper
EnclosingAncestor(a, t, k) ==
    /\ sections[a].title = t
    /\ \A j \in (a + 1)..k : sections[j].level > sections[a].level
    /\ ClosingEntry(a) = 0 \/ ClosingEntry(a) > k

\* C27: every title _build_hierarchy returns for sections[index] is that of a
\* section before it such that no entry between the two is as shallow as that
\* section; so the entry that ends that section's page range, if there is
\* one, comes after sections[index]: the ancestor's outline span encloses it.
C27_AncestorsEnclose ==
    Resolved =>
        /\ Len(toc) = Len(sections)
        /\ \A m \in 1..Len(hierarchy) :
              \E a \in 1..cur : EnclosingAncestor(a, hierarchy[m], cur + 1)

\* levels 1, 2, 1: the second section has the first as ancestor, and the
\* entry that ends the first section's page range is the third
C27_Witness ==
    /\ Resolved
    /\ cur = 1
    /\ Len(sections) = 3
    /\ sections[1].level = 1
    /\ sections[2].level = 2
    /\ sections[3].level = 1
    /\ hierarchy = <<sections[1].title>>
    /\ ClosingEntry(1) = 3

(***************************************************************************)
(* Claim about nested page ranges (checked under SpecSlice).               *)
(***************************************************************************)
\* the pages of the outline do not decrease and lie within the document
PagesInOrder ==
    /\ \A i \in 1..Len(toc) : toc[i].page >= 1 /\ toc[i].page <= doc.page_count
    /\ \A i, j \in 1..Len(toc) : i < j => toc[i].page <= toc[j].page

\* entry j follows entry i and every entry from i + 1 to j is deeper than i
Under(i, j) ==
    /\ i < j
    /\ \A k \in (i + 1)..j : toc[k].level > toc[i].level

\* C28: when the pages of the outline do not decrease in outline order and
\* lie within 1..page count, the page range of an entry lies within that of
\* every entry it stands under: it starts no earlier and ends no later, the
\* pages read for it are among those read for the enclosing entry, and its
\* text is part of the enclosing entry's content.
C28_NestedPageRanges ==
    (Sliced /\ PagesInOrder) =>
        \A i, j \in 1..Len(toc) :
            Under(i, j) =>
                /\ sections[i].start_page <= sections[j].start_page
                /\ sections[j].end_page <= sections[i].end_page
                /\ {reads[j][k] : k \in 1..Len(reads[j])}
                      \subseteq {reads[i][k] : k \in 1..Len(reads[i])}
                /\ Contains(sections[i].content, sections[j].content)

\* levels 1, 2, 2 on pages 1, 1, 2 of a two-page document: the second entry
\* ends on page 1, within the first, which runs to page 2
C28_Witness ==
    /\ Sliced
    /\ PagesInOrder
    /\ Len(toc) = 3
    /\ Under(1, 2)
    /\ Under(1, 3)
    /\ sections[1].end_page = 2
    /\ sections[2].end_page = 1
    /\ sections[3].start_page = 2
    /\ reads[1] = <<0, 1>>
    /\ reads[2] = <<0>>
    /\ sections[2].content # <<>>
    /\ sections[2].content # sections[1].content

(***************************************************************************)
(* Claim about the sink when the file cannot be opened (checked under      *)
(* Spec).                                                                  *)
(***************************************************************************)
OpenFailed == pc = "raised" /\ ~SourceCanOpen

\* every entry the store ever issued an identifier for is still there
NothingRemoved == Len(sink.collection) = sink.issued

\* C29 as stated: when the run fails because the file cannot be opened, the
\* sink is as it was: neither delete_collection nor add_documents was called
\* on it, also when clear_existing is true.
C29_OpenFailureLeavesSink ==
    OpenFailed
    => /\ CallsOf("delete_collection") = <<>>
       /\ CallsOf("add_documents") = <<>>
       /\ NothingRemoved

\* C29 (amended): when the run fails because the file cannot be opened,
\* add_documents was never called; with clear_existing false no call was made
\* on the sink at all and it is as it was; with clear_existing true
\* delete_collection was called once, before the failure, and where it
\* returned the collection is empty.
C29_OpenFailureAfterClear ==
    OpenFailed
    => /\ CallsOf("add_documents") = <<>>
       /\ ~clear_existing => (sink.calls = <<>> /\ NothingRemoved)
       /\ clear_existing
          => /\ Len(CallsOf("delete_collection")) = 1
             /\ sink.calls[1].op = "delete_collection"
             /\ sink.calls[1].on = GivenManager
             /\ sink.calls[1].ok => sink.collection = <<>>
             /\ ~sink.calls[1].ok => NothingRemoved

\* the file is not there, the collection held an entry and was cleared
C29_Witness ==
    /\ OpenFailed
    /\ source = "absent"
    /\ clear_existing
    /\ CallsOf("delete_collection") # <<>>
    /\ sink.calls[1].ok
    /\ sink.issued = 1
    /\ sink.collection = <<>>
    /\ result = <<>>

(***************************************************************************)
(* The run with a file that opens, of zero pages or more, and with reads   *)
(* of the document that may raise inside the `with` block: __exit__ closes *)
(* the parser and the exception goes on to the caller of populate.         *)
(***************************************************************************)
InitRead ==
    /\ pc = "start"
    /\ clear_existing = FALSE
    /\ source = "present"
    /\ \E m \in 0..RunPageCount, n \in 0..RunMaxEntries, shift \in Shifts :
          \E ls \in [1..n -> 1..RunMaxLevel], ps \in [1..n -> 1..RunMaxPage] :
              doc = Document(m, Outline(ls, ps, shift), shift)
    /\ toc = <<>>
    /\ structured_toc = <<>>
    /\ sections = <<>>
    /\ reads = <<>>
    /\ scanned = <<>>
    /\ cfg \in RunConfigs
    /\ cur = 0
    /\ hierarchy = <<>>
    /\ documents = <<>>
    /\ all_documents = <<>>
    /\ counts = <<>>
    /\ vector_store = GivenManager
    /\ sink = EmptySink
    /\ result = <<>>
    /\ raised = "none"

\* line 49: parser.extract_toc() raises
ExtractTocRaises ==
    /\ pc = "parser"
    /\ pc' = "raised"
    /\ raised' = "extract_toc failed"
    /\ source' = close(doc, source)
    /\ UNCHANGED <<doc, toc, structured_toc, sections, reads, scanned, cfg, cur, hierarchy,
                   documents, all_documents, counts, clear_existing, vector_store,
                   sink, result>>

\* line 54: parser.extract_content_by_toc() raises
SliceRaises ==
    /\ pc = "toc"
    /\ pc' = "raised"
    /\ raised' = "extract_content_by_toc failed"
    /\ source' = close(doc, source)
    /\ UNCHANGED <<doc, toc, structured_toc, sections, reads, scanned, cfg, cur, hierarchy,
                   documents, all_documents, counts, clear_existing, vector_store,
                   sink, result>>

NextRead ==
    \/ OpenParser
    \/ ExtractToc
    \/ ExtractTocRaises
    \/ Slice
    \/ SliceRaises
    \/ CloseParser
    \/ SplitSection
    \/ AddDocuments

SpecRead == InitRead /\ [][NextRead]_vars

(***************************************************************************)
(* Claim about the document handle (checked under SpecRead).               *)
(***************************************************************************)
\* the run has left the `with` block, past its end or by an exception
LeftParserBlock == pc \in {"split", "done", "raised"}

\* C30: once the file was opened, its handle is closed on every way out of
\* the `with` block: before the first section is split, before add_documents
\* is called, and when extract_toc or extract_content_by_toc raises; and the
\* parser, which reads the pages, is not at work once the handle is closed.
C30_HandleClosed ==
    /\ LeftParserBlock => source = "closed"
    /\ (cur > 0 \/ CallsOf("add_documents") # <<>>) => source = "closed"
    /\ source = "closed" => LeftParserBlock

\* what holds: the handle is closed on every way out of the block when the
\* document has at least one page, and only then
C30_ClosedWhenPages ==
    /\ LeftParserBlock => (source = "closed") = (doc.page_count > 0)
    /\ source = "closed" => LeftParserBlock

====
